---- MODULE Spec2Model ----
(***************************************************************************)
(* Model of the iterative Schroedinger solver:                             *)
(*   - the /api/schrodinger handler        (src/pages/api/schrodinger.js)  *)
(*   - solveSchrodingerIterative           (src/lib/schrodinger/solver.js) *)
(*   - callChat, the retrying chat client  (src/lib/schrodinger/solver.js) *)
(*   - planSchrodingerSolution             (src/lib/schrodinger/plan.js)   *)
(*   - buildLatexDocument                  (src/lib/schrodinger/intent.js) *)
(* One action is one stretch of code between two suspension points (await) *)
(* of the async functions.                                                 *)
(***************************************************************************)
EXTENDS Integers, Sequences, FiniteSets, TLC

VARIABLES
    env,         \* process.env as the code reads it: credential, model size, retries
    req,         \* the caller's input: entry point and the raw request fields
    args,        \* the arguments solveSchrodingerIterative was called with
    pc,          \* the suspension point the handler / solver is waiting at
    plan,        \* the planner's plan (its length; steps are consumed by position)
    iterations,  \* the accepted iterations (solver.js:629)
    k,           \* the loop counter of solver.js:640
    stop,        \* the stop flag of solver.js:630
    parsed,      \* the round's candidate, kept across the repair/revise await
    chat,        \* the running callChat: attempt, lastErr, what it waits for
    hist,        \* history: last validateIteration call, rounds that failed
    out          \* what the solver returned/raised and what the handler answered

vars == <<env, req, args, pc, plan, iterations, k, stop, parsed, chat, hist, out>>

(***************************************************************************)
(* Bounds of the model.                                                    *)
(***************************************************************************)
MaxRetries == 1      \* SCH_MAX_RETRIES ranges over 0..MaxRetries
MaxIterArg == 2      \* a direct caller passes maxIterations in 1..MaxIterArg
MaxPlanLen == 3      \* the planner answers with 0..MaxPlanLen steps
MaxCallRetries == 3  \* a chat call on its own is given maxRetries in -1..MaxCallRetries

(***************************************************************************)
(* Program constants.                                                      *)
(***************************************************************************)
MinEquations == 5            \* solver.js:473
MinSummaryLen == 60          \* solver.js:500
MinAnalysisLen == 50         \* solver.js:506
MinGoalLen == 20             \* solver.js:561
MinJustificationLen == 10    \* solver.js:493 (strictly longer than)
MinExhaustiveIterations == 8 \* solver.js:606
DefaultMaxIterations == 6    \* schrodinger.js:10,50 and solver.js:598
DefaultTemperatureTenths == 1 \* 0.1, schrodinger.js:10,51
ClampMaxIterations == 4      \* schrodinger.js:52
ClampMinIterations == 1      \* schrodinger.js:52
ClampMaxTemperatureTenths == 10 \* 1, schrodinger.js:53
MinDelayMs == 300
DefaultBaseDelayMs == 500
JitterSpan == 100            \* solver.js:632, SCH_MIN_DELAY_MS unset

Null == [kind |-> "null"]

Min(a, b) == IF a <= b THEN a ELSE b
Max(a, b) == IF a >= b THEN a ELSE b

(***************************************************************************)
(* Strings.  The texts the model's JSON carries are drawn from a palette;  *)
(* length, lower-casing/trimming and substring tests are tabulated for     *)
(* the palette.                                                            *)
(***************************************************************************)
GoalShort == "find it"
GoalOk == "derive the energy levels of the well"
AnalysisShort == "short analysis"
AnalysisOk == "we separate the variables and then solve the radial part step by step"
SummaryShort == "done"
SummaryOk == "the energy levels follow from the quantization rule obtained in this step"
TextJustified == "apply the boundary condition"
TextPlain == "algebra step shown"
TextBareToken == "hbar enters the boundary condition"
TextToken == "\\hbar enters the boundary condition"
TextTokenDoubled == "\\\\hbar enters the boundary condition"
FallbackGoal == "Continue derivation (recovered from truncated output)"
FallbackAnalysis == "Output was truncated, continuing with minimal iteration"
FallbackSummary == "Iteration truncated - please use a larger model or reduce complexity"

StrLen(s) ==
    CASE s = "" -> 0
      [] s = "a=b" -> 3
      [] s = " A=B " -> 5
      [] s = "c=d" -> 3
      [] s = "x" -> 1
      [] s = "ok" -> 2
      [] s = TextJustified -> 28
      [] s = TextBareToken -> 34
      [] s = TextToken -> 35
      [] s = TextTokenDoubled -> 36
      [] s = TextPlain -> 18
      [] s = GoalShort -> 7
      [] s = GoalOk -> 36
      [] s = AnalysisShort -> 14
      [] s = AnalysisOk -> 69
      [] s = SummaryShort -> 4
      [] s = SummaryOk -> 73
      [] s = FallbackGoal -> 53
      [] s = FallbackAnalysis -> 55
      [] s = FallbackSummary -> 68
      [] s = "Continue derivation" -> 19
      [] s = "Continuing the solution" -> 23
      [] s = "Partial iteration (output was truncated)" -> 40

\* s.trim().toLowerCase()
TrimLower(s) ==
    CASE s = " A=B " -> "a=b"
      [] s = FallbackGoal -> "continue derivation (recovered from truncated output)"
      [] s = FallbackAnalysis -> "output was truncated, continuing with minimal iteration"
      [] s = FallbackSummary -> "iteration truncated - please use a larger model or reduce complexity"
      [] OTHER -> s

\* physicsChecks.some(k => s.toLowerCase().includes(k)), solver.js:538-543
HasPhysicsKeyword(s) == s \in {TextJustified, TextBareToken, TextToken, TextTokenDoubled}

\* mathSymbols.some(sym => s.includes(sym)), solver.js:550-553
HasMathSymbol(s) == s \in {"a=b", " A=B ", "c=d", TextToken, TextTokenDoubled}

\* normalizeLatexTokens(s), solver.js:448-456, on the palette: /\bhbar\b/
\* matches hbar at the start of the text and also after a backslash, which
\* is not a word character, so every standalone hbar gets one more backslash
normalizeLatexTokens(s) ==
    CASE s = TextBareToken -> TextToken
      [] s = TextToken -> TextTokenDoubled
      [] OTHER -> s

\* JavaScript's a || b on strings
OrElse(a, b) == IF a # "" THEN a ELSE b

(***************************************************************************)
(* Equations and iteration records.                                        *)
(***************************************************************************)
EqA == [latex |-> "a=b", text |-> TextJustified]
EqAUpper == [latex |-> " A=B ", text |-> TextJustified]
EqB == [latex |-> "c=d", text |-> TextBareToken]
EqBare == [latex |-> "x", text |-> "ok"]
EqEmpty == [latex |-> "", text |-> ""]

\* n equations: `first`, then n-1 times `rest`
Eqs(n, first, rest) == [i \in 1..n |-> IF i = 1 THEN first ELSE rest]

Iteration(kv, g, a, e, s, st) ==
    [k |-> kv, goal |-> g, analysis |-> a, equations |-> e,
     result_summary |-> s, stop |-> st, main_result_latex |-> ""]

\* the k values the model's JSON may carry (0 also stands for a missing k)
ModelKs == {0, 9}

\* candidates that pass every count and length check
GoodCandidates ==
    { Iteration(kv, GoalOk, AnalysisOk, Eqs(MinEquations, e, e), SummaryOk, st) :
        kv \in ModelKs, e \in {EqA, EqB}, st \in BOOLEAN }
      \cup
    \* a closing iteration that states the main result
    { [Iteration(9, GoalOk, AnalysisOk, Eqs(MinEquations, EqA, EqA), SummaryOk, TRUE)
          EXCEPT !.main_result_latex = "E_n"] }

\* candidates with one defect each
BadCandidates ==
    { Iteration(9, GoalOk, AnalysisOk, Eqs(MinEquations - 1, EqA, EqA), SummaryOk, FALSE),
      Iteration(0, GoalOk, AnalysisOk, Eqs(MinEquations, EqB, EqB), SummaryShort, TRUE) }

Candidates == GoodCandidates \cup BadCandidates

\* the comparison key without trim() and toLowerCase()
EqKeyExact(e) == OrElse(e.latex, e.text)

\* (e.latex || e.text || '').trim().toLowerCase(), solver.js:514-524
EqKey(e) == TrimLower(OrElse(e.latex, e.text))

(***************************************************************************)
(* validateIteration(it, last, detailLevel), solver.js:465-568.            *)
(* `last` is Null for undefined.                                           *)
(***************************************************************************)
\* the count gate one equation too lenient
CountOkOneLess(eqs) == ~(Len(eqs) < MinEquations - 1)

CountOk(eqs) == ~(Len(eqs) < MinEquations)

NoEmptyEquation(eqs) ==
    LET IsEmpty(e) == e.latex = "" /\ e.text = ""
    IN  Len(SelectSeq(eqs, IsEmpty)) = 0

\* the justification share required to exceed 60%
JustifiedOkStrict(eqs) ==
    LET Just(e) == e.text # "" /\ StrLen(e.text) > MinJustificationLen
    IN  10 * Len(SelectSeq(eqs, Just)) > 6 * Len(eqs)

JustifiedOk(eqs) ==
    LET Just(e) == e.text # "" /\ StrLen(e.text) > MinJustificationLen
    IN  ~(10 * Len(SelectSeq(eqs, Just)) < 6 * Len(eqs))

SummaryLenOk(it) == ~(it.result_summary = "" \/ StrLen(it.result_summary) < MinSummaryLen)

AnalysisLenOk(it) == ~(it.analysis = "" \/ StrLen(it.analysis) < MinAnalysisLen)

NotRedundant(eqs, last) ==
    IF last # Null /\ Len(last.equations) > 0 /\ Len(eqs) > 0
    THEN LET lastFirst == EqKey(last.equations[1])
             thisFirst == EqKey(eqs[1])
             lastFinal == EqKey(last.equations[Len(last.equations)])
             hasRepeat == \E i \in 1..Len(eqs) :
                             EqKey(eqs[i]) # "" /\ lastFinal # "" /\ EqKey(eqs[i]) = lastFinal
         IN  /\ ~(lastFirst # "" /\ thisFirst # "" /\ lastFirst = thisFirst)
             /\ ~hasRepeat
    ELSE TRUE

RigorOk(it, eqs) ==
    \/ HasPhysicsKeyword(it.analysis)
    \/ HasPhysicsKeyword(it.result_summary)
    \/ \E i \in 1..Len(eqs) : HasPhysicsKeyword(eqs[i].text)

MathOk(eqs) ==
    LET Math(e) == HasMathSymbol(OrElse(e.latex, e.text))
    IN  ~(10 * Len(SelectSeq(eqs, Math)) < 7 * Len(eqs))

GoalLenOk(it) == ~(it.goal = "" \/ StrLen(it.goal) < MinGoalLen)

validateIteration(it, last, detailLevel) ==
    IF it = Null THEN FALSE
    ELSE LET eqs == it.equations
         IN  /\ CountOk(eqs)
             /\ NoEmptyEquation(eqs)
             /\ JustifiedOk(eqs)
             /\ SummaryLenOk(it)
             /\ AnalysisLenOk(it)
             /\ NotRedundant(eqs, last)
             /\ RigorOk(it, eqs)
             /\ MathOk(eqs)
             /\ GoalLenOk(it)

(***************************************************************************)
(* JavaScript values of the request body.  A raw value is undefined, a     *)
(* finite number, or something Number() turns into NaN or Infinity.        *)
(* Temperatures are counted in tenths.                                     *)
(***************************************************************************)
Undefined == [t |-> "undefined", v |-> 0]
NaN == [t |-> "nan", v |-> 0]
Infinity == [t |-> "inf", v |-> 0]
Num(n) == [t |-> "num", v |-> n]

RawMaxIterations == {Undefined, NaN, Infinity, Num(-1), Num(2), Num(5)}
RawTemperatures == {Undefined, NaN, Num(-5), Num(3), Num(15)}
DetailLevels == {"exhaustive", "standard", "basic"}
Strategies == {"planner", "baseline"}

\* a destructuring default, schrodinger.js:10
WithDefault(raw, d) == IF raw = Undefined THEN Num(d) ELSE raw

\* Number.isFinite(Number(x)) ? Number(x) : d, schrodinger.js:50-51
FiniteOr(raw, d) == IF raw.t = "num" THEN raw.v ELSE d

\* the lower bound forgotten
ClampNoFloor(x, lo, hi) == Min(x, hi)

\* Math.max(lo, Math.min(x, hi)), schrodinger.js:52-53
Clamp(x, lo, hi) == Max(lo, Min(x, hi))

clamped(rawMaxIt) ==
    Clamp(FiniteOr(WithDefault(rawMaxIt, DefaultMaxIterations), DefaultMaxIterations),
          ClampMinIterations, ClampMaxIterations)

clampedTemperature(rawTemp) ==
    Clamp(FiniteOr(WithDefault(rawTemp, DefaultTemperatureTenths), DefaultTemperatureTenths),
          0, ClampMaxTemperatureTenths)

(***************************************************************************)
(* Model output: the content string of a chat response.                    *)
(***************************************************************************)
Empty == [kind |-> "empty"]                    \* '' or no choices at all
Prose == [kind |-> "prose"]                    \* text without any '{'
Json(rec) == [kind |-> "json", rec |-> rec]    \* a valid JSON object
Truncated(kv) == [kind |-> "truncated", k |-> kv] \* has '{' and cannot be repaired; "k": kv (-1: none)

TruncatedKs == {-1, 9}

\* the k of a truncated error_model_output
EmoKs == {0, 9}

IterationContents ==
    {Empty, Prose} \cup {Json(c) : c \in Candidates} \cup {Truncated(kv) : kv \in TruncatedKs}

\* the fallback record of repairIncompleteJSON, solver.js:353-362
FallbackRecord(kv) ==
    Iteration(IF kv = -1 THEN 1 ELSE kv, FallbackGoal, FallbackAnalysis, <<>>,
              FallbackSummary, FALSE)

\* the defaults repairIncompleteJSON adds to a record that parsed, solver.js:340-344
WithRequiredFields(rec) ==
    [rec EXCEPT !.k = IF @ = 0 THEN 1 ELSE @,
                !.goal = OrElse(@, "Continue derivation"),
                !.analysis = OrElse(@, "Continuing the solution"),
                !.result_summary = OrElse(@, "Partial iteration (output was truncated)")]

\* repairIncompleteJSON(s), solver.js:289-364
repairIncompleteJSON(c) ==
    CASE c.kind \in {"empty", "prose"} -> Null
      [] c.kind = "json" -> WithRequiredFields(c.rec)
      [] c.kind = "truncated" -> FallbackRecord(c.k)

\* an extraction without the local repair of solver.js:280-284
extractJSONNoLocalRepair(c) == IF c.kind = "json" THEN c.rec ELSE Null

\* extractJSON(s), solver.js:253-287
extractJSON(c) ==
    CASE c.kind = "empty" -> Null
      [] c.kind = "json" -> c.rec
      [] OTHER -> repairIncompleteJSON(c)

(***************************************************************************)
(* HTTP responses.  status 0 stands for a fetch that rejects; `parses`     *)
(* says whether resp.json() resolves; `emo` is the error_model_output of   *)
(* an error body (Null: none).                                             *)
(***************************************************************************)
Response(st, ok, c, e) == [status |-> st, parses |-> ok, content |-> c, emo |-> e]

ErrorStatuses == {0, 404, 429, 500}

FailureResponses ==
    {Response(st, FALSE, Empty, Null) : st \in ErrorStatuses}
        \cup {Response(200, FALSE, Empty, Null)}
        \cup {Response(404, TRUE, Empty, Truncated(kv)) : kv \in EmoKs}

\* further error bodies a chat call on its own is answered with: an
\* error_model_output without '{', one that is a whole object (with and
\* without k), and one no closing repairs that has no k
ErrorBodyResponses ==
    {Response(404, TRUE, Empty, e) :
        e \in {Prose, Truncated(-1)} \cup {Json(c) : c \in BadCandidates}}

\* the responses that do not carry a chat completion, for the call at p
ErrorResponsesAt(p) ==
    FailureResponses \cup (IF p = "call" THEN ErrorBodyResponses ELSE {})

ChatResponses(contents) ==
    FailureResponses \cup {Response(200, TRUE, c, Null) : c \in contents}

RespOk(r) == r.status >= 200 /\ r.status <= 299

NoErr == [set |-> FALSE, status |-> 0, what |-> "none"]
HttpErr(st) == [set |-> TRUE, status |-> st, what |-> "HTTP"]
Thrown(what) == [set |-> TRUE, status |-> 0, what |-> what]

\* solver.js:23, the statuses callChat retries
Retryable(r) == r.status = 429 \/ r.status >= 500

\* an error body never taken for a model output
EmoRepairedNever(r) == Null

\* solver.js:29-35: the error body carries a model output that repairs to a record with a k
EmoRepaired(r) ==
    IF r.emo = Null THEN Null
    ELSE LET repaired == repairIncompleteJSON(r.emo)
         IN  IF repaired # Null /\ repaired.k # 0 THEN repaired ELSE Null

\* what one pass through the try block of callChat (solver.js:12-60) ends in:
\* "return", or "caught" with lastErr set (the throw of line 54 is inside the
\* try block, so the catch of line 58 takes it like any other exception)
ChatOutcome(r) ==
    IF r.status = 0 THEN "caught"
    ELSE IF Retryable(r) THEN "captured"
    ELSE IF ~RespOk(r) THEN (IF EmoRepaired(r) # Null THEN "return" ELSE "caught")
    ELSE IF r.parses THEN "return" ELSE "caught"

\* lastErr after a pass that did not return
ChatError(r) ==
    IF r.status = 0 THEN Thrown("fetch failed")
    ELSE IF RespOk(r) THEN Thrown("invalid json")
    ELSE HttpErr(r.status)

\* data.choices?.[0]?.message?.content || '' of what callChat returned
ChatContent(r) == IF RespOk(r) THEN r.content ELSE Json(EmoRepaired(r))

IdleChat ==
    [phase |-> "idle", attempt |-> 0, lastErr |-> NoErr, requests |-> 0, resp |-> Null,
     wait |-> 0]

\* callChat entered, solver.js:6-18: the first fetch is awaited
NewChat == [IdleChat EXCEPT !.phase = "fetch", !.requests = 1]

\* maxRetries: process.env.SCH_MAX_RETRIES || 3, solver.js:7
Retries == env.retries

\* baseDelayMs: process.env.SCH_BACKOFF_BASE_MS || 500, solver.js:8
Base == env.base

\* Math.floor(Math.random() * 100) is an integer in 0..99; its two ends
JitterSamples == {0, JitterSpan - 1}

\* a wait that grows by one base per attempt
backoffWaitLinear(base, attempt, jitter) == base * (attempt + 1) + jitter

\* solver.js:62: base * Math.pow(2, attempt) + Math.floor(Math.random() * 100)
backoffWait(base, attempt, jitter) == base * 2^attempt + jitter

(***************************************************************************)
(* The run state as one record, so that the code between two awaits can    *)
(* be written as a composition of functions of it.                         *)
(***************************************************************************)
Cur ==
    [pc |-> pc, plan |-> plan, iterations |-> iterations, k |-> k, stop |-> stop,
     parsed |-> parsed, chat |-> chat, hist |-> hist, out |-> out]

Become(R) ==
    /\ pc' = R.pc
    /\ plan' = R.plan
    /\ iterations' = R.iterations
    /\ k' = R.k
    /\ stop' = R.stop
    /\ parsed' = R.parsed
    /\ chat' = R.chat
    /\ hist' = R.hist
    /\ out' = R.out

NoOut == [status |-> "none", result |-> Null, error |-> NoErr, http |-> 0]

\* lastVal: the last call of validateIteration in the current round and its result;
\* failed: why a round ended without an iteration; rounds: rounds started;
\* synthCalls: calls of synthesizeAppendix; lastReturn: the response the chat call
\* that has just returned ended on; planner: how the planner call that has just
\* ended went, kept until the first round's chat call gets a response
NoHist ==
    [lastVal |-> Null, failed |-> "none", rounds |-> 0, synthCalls |-> 0,
     lastReturn |-> Null, planner |-> "none"]

InitRun ==
    [pc |-> "idle", plan |-> 0, iterations |-> <<>>, k |-> 0, stop |-> FALSE,
     parsed |-> Null, chat |-> IdleChat, hist |-> NoHist, out |-> NoOut]

NoReq ==
    [entry |-> "none", method |-> "none", equation |-> FALSE, nlRequest |-> FALSE,
     maxIterations |-> Undefined, temperature |-> Undefined,
     detailLevel |-> "exhaustive", strategy |-> "planner", provider |-> "groq"]

LastOf(its) == IF Len(its) = 0 THEN Null ELSE its[Len(its)]

(***************************************************************************)
(* buildLatexDocument(meta, iterations, final), intent.js:52-101: the      *)
(* document as the sequence of its parts.                                  *)
(***************************************************************************)
Part(name, kv) == [part |-> name, k |-> kv]

buildLatexDocument(its, final) ==
    <<Part("Problem Statement", 0), Part("Iterative Solution Procedure", 0)>>
        \o [i \in 1..Len(its) |-> Part("Iteration", IF its[i].k # 0 THEN its[i].k ELSE i)]
        \o <<Part("Conclusion", 0)>>

(***************************************************************************)
(* solveSchrodingerIterative, solver.js:598-723.  `en` is the entry point  *)
(* ("endpoint": the handler awaits the solver and answers), `a` the        *)
(* solver's arguments.                                                     *)
(***************************************************************************)
\* solver.js:605-607
\* the iteration bound without the detail-level override
effectiveMaxIterationsAsPassed(a) == a.maxIterations

effectiveMaxIterations(a) ==
    IF a.detailLevel = "exhaustive"
    THEN Max(a.maxIterations, MinExhaustiveIterations)
    ELSE a.maxIterations

\* solver.js:631
totalLoops(a, planLen) ==
    IF a.strategy = "planner" /\ planLen > 0
    THEN Min(planLen, effectiveMaxIterations(a))
    ELSE effectiveMaxIterations(a)

\* a failure answered with what the run has so far instead of an error
RaiseDeliversPartial(en, R, err) ==
    [R EXCEPT !.pc = "done",
              !.chat = [@ EXCEPT !.phase = "idle"],
              !.out = [status |-> "returned",
                       result |-> [iterations |-> R.iterations, latex |-> <<>>,
                                   final |-> [main_result_latex |-> "",
                                              appendix |-> FALSE]],
                       error |-> NoErr,
                       http |-> IF en = "endpoint" THEN 200 ELSE 0]]

\* the solver throws; the handler's catch answers 500, schrodinger.js:58-61
Raise(en, R, err) ==
    [R EXCEPT !.pc = "done",
              !.chat = [@ EXCEPT !.phase = "idle"],
              !.out = [status |-> "raised", result |-> Null, error |-> err,
                       http |-> IF en = "endpoint" THEN 500 ELSE 0]]

\* the main result taken from the synthesis whenever it states one
mainResultLatexSynthesisFirst(its, synMain) ==
    IF synMain # "" THEN synMain
    ELSE IF Len(its) = 0 THEN "" ELSE LastOf(its).main_result_latex

\* solver.js:690-691 and 700: finalStep.main_result_latex || '', replaced by
\* the synthesis's main_result_latex only when it is empty; synMain is ''
\* when no synthesis call was made or it stated none
mainResultLatex(its, synMain) ==
    LET finalStep == IF Len(its) = 0 THEN "" ELSE LastOf(its).main_result_latex
    IN  IF finalStep = "" /\ synMain # "" THEN synMain ELSE finalStep

\* solver.js:706-722 and schrodinger.js:56-57
Finish(en, R, appendixLatex, synMain) ==
    LET mainLatex == mainResultLatex(R.iterations, synMain)
        final == [main_result_latex |-> mainLatex, appendixLatex |-> appendixLatex]
        latex == buildLatexDocument(R.iterations, final)
    IN  [R EXCEPT !.pc = "done",
                  !.chat = IdleChat,
                  !.out = [status |-> "returned",
                           result |-> [iterations |-> R.iterations, latex |-> latex,
                                       final |-> [main_result_latex |-> mainLatex,
                                                  appendix |-> appendixLatex # ""]],
                           error |-> NoErr,
                           http |-> IF en = "endpoint" THEN 200 ELSE 0]]

\* solver.js:695-696
\* the appendix asked for at every detail level
SynthesisWantedAnyLevel(a, its) == ~env.smallModel /\ Len(its) > 0

SynthesisWanted(a, its) ==
    /\ ~env.smallModel
    /\ Len(its) > 0
    /\ a.detailLevel \in {"exhaustive", "standard"}

\* solver.js:690-704: after the loop
AfterLoop(en, a, R) ==
    IF SynthesisWanted(a, R.iterations)
    THEN [R EXCEPT !.pc = "synth", !.chat = NewChat, !.parsed = Null,
                   !.hist.synthCalls = @ + 1]
    ELSE Finish(en, [R EXCEPT !.parsed = Null], "", "")

\* the loop condition without the stop flag
LoopContinuesIgnoringStop(a, R) == R.k <= totalLoops(a, R.plan)

\* solver.js:640: the loop condition
LoopContinues(a, R) == R.k <= totalLoops(a, R.plan) /\ ~R.stop

\* solver.js:640-653: the loop test, the pause between rounds, the round's chat call
StartRound(R) ==
    [R EXCEPT !.pc = "iter", !.chat = NewChat, !.parsed = Null,
              !.hist.rounds = @ + 1, !.hist.lastVal = Null, !.hist.lastReturn = Null]

LoopHead(en, a, R) ==
    IF LoopContinues(a, R)
    THEN IF R.k > 1 /\ MinDelayMs > 0
         THEN [R EXCEPT !.pc = "delay", !.chat = IdleChat, !.parsed = Null]
         ELSE StartRound(R)
    ELSE AfterLoop(en, a, R)

\* solver.js:678-685: the record pushed for candidate p in round kk
NormalizedEquations(eqs) ==
    [i \in 1..Len(eqs) |->
        [latex |-> normalizeLatexTokens(eqs[i].latex),
         text |-> normalizeLatexTokens(eqs[i].text)]]

\* the push written as { k, ...parsed }: the model's k wins
StoredIterationModelK(p, kk) ==
    [p EXCEPT !.equations = NormalizedEquations(@)]

StoredIteration(p, kk) ==
    [p EXCEPT !.equations = NormalizedEquations(@), !.k = kk]

\* the new iteration put in front of the list instead of at its end
AcceptAtFront(en, a, R, p) ==
    LoopHead(en, a,
        [R EXCEPT !.iterations = <<StoredIteration(p, R.k)>> \o @,
                  !.stop = IF p.stop = TRUE THEN TRUE ELSE @,
                  !.k = @ + 1])

\* solver.js:677-688: push, stop flag, k++ and back to the loop test
Accept(en, a, R, p) ==
    LoopHead(en, a,
        [R EXCEPT !.iterations = Append(@, StoredIteration(p, R.k)),
                  !.stop = IF p.stop = TRUE THEN TRUE ELSE @,
                  !.k = @ + 1])

\* continue instead of break: the next round is tried
BreakContinues(en, a, R, why) ==
    LoopHead(en, a, [R EXCEPT !.hist.failed = why, !.k = @ + 1])

\* the failed round raised to the caller
BreakRaises(en, a, R, why) ==
    Raise(en, [R EXCEPT !.hist.failed = why], Thrown("iteration failed validation"))

\* solver.js:663 and 674: break
Break(en, a, R, why) == AfterLoop(en, a, [R EXCEPT !.hist.failed = why])

Validated(R, p, a, isRevision) ==
    [it |-> p, last |-> LastOf(R.iterations), revision |-> isRevision,
     ok |-> validateIteration(p, LastOf(R.iterations), a.detailLevel)]

\* the gate asking for a revision of every candidate
GateAlwaysRevises(en, a, R, p) ==
    [R EXCEPT !.hist.lastVal = Validated(R, p, a, FALSE),
              !.pc = "revise", !.chat = NewChat, !.parsed = p]

\* solver.js:667-669: the quality gate on the round's first candidate
Gate(en, a, R, p) ==
    LET v == Validated(R, p, a, FALSE)
        R1 == [R EXCEPT !.hist.lastVal = v]
    IN  IF v.ok
        THEN Accept(en, a, R1, p)
        ELSE [R1 EXCEPT !.pc = "revise", !.chat = NewChat, !.parsed = p]

\* the revision taken without a second validation
RevisionAcceptedUnchecked(revised, last, detailLevel) == revised # Null

\* solver.js:670: revised && validateIteration(revised, ...)
RevisionAccepted(revised, last, detailLevel) ==
    revised # Null /\ validateIteration(revised, last, detailLevel)

\* the round given up as soon as the local extraction fails
OnIterationContentNoRepair(en, a, R, content) ==
    LET p == extractJSON(content)
    IN  IF p = Null THEN Break(en, a, R, "extract") ELSE Gate(en, a, R, p)

\* solver.js:655-665: the content of the round's chat call
OnIterationContent(en, a, R, content) ==
    LET p == extractJSON(content)
    IN  IF p = Null
        THEN [R EXCEPT !.pc = "repair", !.chat = NewChat, !.parsed = Null]
        ELSE Gate(en, a, R, p)

\* a network repair that is asked again when it gives no record
OnRepairContentRepairsAgain(en, a, R, content) ==
    LET p == extractJSON(content)
    IN  IF p = Null
        THEN [R EXCEPT !.pc = "repair", !.chat = NewChat, !.parsed = Null]
        ELSE Gate(en, a, R, p)

\* tryRepairJSON solver.js:375-376, then solver.js:661-667
OnRepairContent(en, a, R, content) ==
    LET p == extractJSON(content)
    IN  IF p = Null THEN Break(en, a, R, "extract") ELSE Gate(en, a, R, p)

\* reviseIteration solver.js:594-595, then solver.js:670-676
OnRevisionContent(en, a, R, content) ==
    LET revised == extractJSON(content)
        last == LastOf(R.iterations)
        R1 == IF revised = Null THEN R
              ELSE [R EXCEPT !.hist.lastVal = Validated(R, revised, a, TRUE)]
    IN  IF RevisionAccepted(revised, last, a.detailLevel)
        THEN Accept(en, a, R1, revised)
        ELSE Break(en, a, R1, "validate")

(***************************************************************************)
(* The planner, plan.js:99-110, as solver.js:619-627 reads it.             *)
(***************************************************************************)
PlanResponses ==
    {[kind |-> kd, n |-> 0] : kd \in {"not_ok", "throws", "unparseable", "not_array"}}
        \cup {[kind |-> "plan", n |-> n] : n \in 0..MaxPlanLen}

\* plan = Array.isArray(planOut?.plan) ? planOut.plan : [], and [] when the call threw
\* a failed planner call leaving a plan of one step
PlanOfFailureOneStep(r) == IF r.kind = "plan" THEN r.n ELSE 1

PlanOf(r) == IF r.kind = "plan" THEN r.n ELSE 0

\* the rounds started without waiting for the planner
SolveSkipsPlanner(en, a) ==
    IF ~env.hasKey
    THEN Raise(en, InitRun, Thrown("GROQ_API_KEY not set"))
    ELSE LoopHead(en, a, [InitRun EXCEPT !.k = 1])

\* the credential looked at only after the planner call has been issued
SolveChecksKeyLate(en, a) ==
    IF a.strategy = "planner"
    THEN [InitRun EXCEPT !.pc = "plan"]
    ELSE IF ~env.hasKey
         THEN Raise(en, InitRun, Thrown("GROQ_API_KEY not set"))
         ELSE LoopHead(en, a, [InitRun EXCEPT !.k = 1])

\* solver.js:598-640: the call up to its first await
Solve(en, a) ==
    IF ~env.hasKey
    THEN Raise(en, InitRun, Thrown("GROQ_API_KEY not set"))
    ELSE IF a.strategy = "planner"
         THEN [InitRun EXCEPT !.pc = "plan"]
         ELSE LoopHead(en, a, [InitRun EXCEPT !.k = 1])

(***************************************************************************)
(* The /api/schrodinger handler, schrodinger.js:4-63.                      *)
(***************************************************************************)
\* a request body; strategy and provider as in the example body of
\* README.md:68-83 unless given otherwise
Body(m, eq, nl, mi, t, dl) ==
    [entry |-> "endpoint", method |-> m, equation |-> eq, nlRequest |-> nl,
     maxIterations |-> mi, temperature |-> t, detailLevel |-> dl, strategy |-> "planner",
     provider |-> "groq"]

RequestBodies ==
    {Body("POST", TRUE, FALSE, mi, Undefined, dl) : mi \in {Undefined, Num(2)}, dl \in DetailLevels}
        \cup {Body("POST", TRUE, FALSE, mi, Undefined, "standard") : mi \in RawMaxIterations}
        \cup {Body("POST", TRUE, FALSE, Undefined, t, "basic") : t \in RawTemperatures}
        \cup {Body("POST", FALSE, nl, Undefined, Undefined, "standard") : nl \in BOOLEAN}
        \cup {Body("GET", TRUE, FALSE, Undefined, Undefined, "exhaustive")}
        \cup {[Body("POST", TRUE, FALSE, Num(-1), Undefined, "basic")
                  EXCEPT !.strategy = "baseline", !.provider = "openrouter"]}

\* schrodinger.js:10 and 50-55: the arguments the handler passes to the
\* solver.  It reads neither strategy nor provider from the body and passes
\* neither, so the solver's defaults apply (solver.js:598)
HandlerArgs(b) ==
    [maxIterations |-> clamped(b.maxIterations),
     temperature |-> clampedTemperature(b.temperature),
     detailLevel |-> b.detailLevel,
     strategy |-> "planner",
     provider |-> "groq"]

Answer(code) == [InitRun EXCEPT !.pc = "done", !.out.http = code]

\* schrodinger.js:4-55: a request arrives
HandlerRequest ==
    /\ pc = "idle"
    /\ \E b \in RequestBodies :
         /\ req' = b
         /\ IF b.method # "POST"
            THEN args' = Null /\ Become(Answer(405))
            ELSE IF b.equation
            THEN args' = HandlerArgs(b) /\ Become(Solve("endpoint", HandlerArgs(b)))
            ELSE IF b.nlRequest /\ env.hasKey
            THEN args' = Null /\ Become([InitRun EXCEPT !.pc = "intent"])
            ELSE args' = Null /\ Become(Answer(400))
    /\ UNCHANGED env

IntentResponses == {"not_ok", "throws", "unparseable", "no_equation", "equation"}

\* parseSchrodingerIntent intent.js:23-36, then schrodinger.js:18-55
IntentResponse ==
    /\ pc = "intent"
    /\ \E r \in IntentResponses :
         IF r = "equation"
         THEN args' = HandlerArgs(req) /\ Become(Solve("endpoint", HandlerArgs(req)))
         ELSE IF r = "throws"
         THEN args' = Null /\ Become([Answer(500) EXCEPT !.out.error = Thrown("fetch failed")])
         ELSE args' = Null /\ Become(Answer(400))
    /\ UNCHANGED <<env, req>>

\* the arguments of a caller other than the handler
DirectArgs ==
    { [maxIterations |-> mi, temperature |-> DefaultTemperatureTenths,
       detailLevel |-> dl, strategy |-> "planner", provider |-> "groq"] :
         mi \in 1..MaxIterArg, dl \in DetailLevels }
      \cup
    { [maxIterations |-> mi, temperature |-> DefaultTemperatureTenths,
       detailLevel |-> "standard", strategy |-> "baseline", provider |-> "groq"] :
         mi \in 1..MaxIterArg }

\* a caller other than the handler calls solveSchrodingerIterative
SolveDirect ==
    /\ pc = "idle"
    /\ \E a \in DirectArgs :
         /\ req' = [NoReq EXCEPT !.entry = "direct", !.method = "call", !.equation = TRUE,
                                 !.maxIterations = Num(a.maxIterations),
                                 !.detailLevel = a.detailLevel,
                                 !.strategy = a.strategy,
                                 !.provider = a.provider]
         /\ args' = a
         /\ Become(Solve("direct", a))
    /\ UNCHANGED env

\* solver.js:621-640: the planner answers
PlanResponse ==
    /\ pc = "plan"
    /\ \E r \in PlanResponses :
         Become([LoopHead(req.entry, args, [Cur EXCEPT !.plan = PlanOf(r), !.k = 1])
                    EXCEPT !.hist.planner = r.kind])
    /\ UNCHANGED <<env, req, args>>

\* solver.js:641-653: the pause between two rounds is over
RoundDelayElapsed ==
    /\ pc = "delay"
    /\ Become(StartRound(Cur))
    /\ UNCHANGED <<env, req, args>>

(***************************************************************************)
(* callChat, solver.js:6-67.                                               *)
(***************************************************************************)
ChatPcs == {"iter", "repair", "revise", "synth", "call"}

\* solver.js:18-63: the response of one attempt does not end the call
ChatAttemptFails ==
    /\ pc \in ChatPcs
    /\ chat.phase = "fetch"
    /\ \E r \in ErrorResponsesAt(pc) :
         /\ ChatOutcome(r) # "return"
         /\ \E j \in JitterSamples :
              chat' = [chat EXCEPT !.phase = "backoff", !.lastErr = ChatError(r), !.resp = r,
                                   !.wait = backoffWait(Base, chat.attempt, j)]
    /\ hist' = [hist EXCEPT !.lastReturn = Null, !.planner = "none"]
    /\ UNCHANGED <<env, req, args, pc, plan, iterations, k, stop, parsed, out>>

\* the loop test written with <
AttemptsRemainOneLess(attempt, retries) == attempt < retries

\* solver.js:11: while (attempt <= retries), after attempt++
AttemptsRemain(attempt, retries) == attempt <= retries

\* solver.js:63-64, 11-18: the backoff is over and another attempt starts
ChatRetry ==
    /\ pc \in ChatPcs
    /\ chat.phase = "backoff"
    /\ AttemptsRemain(chat.attempt + 1, Retries)
    /\ chat' = [chat EXCEPT !.phase = "fetch", !.attempt = @ + 1, !.requests = @ + 1,
                             !.wait = 0]
    /\ UNCHANGED <<env, req, args, pc, plan, iterations, k, stop, parsed, hist, out>>

\* the generic error whatever was captured
ThrownAtExitGeneric(lastErr) == Thrown("API call failed")

\* solver.js:66: throw lastErr || new Error('API call failed')
ThrownAtExit(lastErr) == IF lastErr.set THEN lastErr ELSE Thrown("API call failed")

\* solver.js:63-66: the backoff is over, no attempt is left, lastErr is thrown;
\* nothing in the solver catches it
ChatExhausted ==
    /\ pc \in ChatPcs
    /\ chat.phase = "backoff"
    /\ ~AttemptsRemain(chat.attempt + 1, Retries)
    /\ Become(Raise(req.entry, [Cur EXCEPT !.chat.attempt = @ + 1, !.chat.wait = 0],
                    ThrownAtExit(chat.lastErr)))
    /\ UNCHANGED <<env, req, args>>

Returning(contents) == {r \in ChatResponses(contents) : ChatOutcome(r) = "return"}

\* the run state when the pending callChat returns on response r
Returned(r) == [Cur EXCEPT !.hist.lastReturn = r, !.hist.planner = "none"]

\* solver.js:653-688: the round's chat call returns
IterationResponse ==
    /\ pc = "iter"
    /\ chat.phase = "fetch"
    /\ \E r \in Returning(IterationContents) :
         Become(OnIterationContent(req.entry, args, Returned(r), ChatContent(r)))
    /\ UNCHANGED <<env, req, args>>

\* solver.js:660-688: the network JSON repair returns
RepairResponse ==
    /\ pc = "repair"
    /\ chat.phase = "fetch"
    /\ \E r \in Returning(IterationContents) :
         Become(OnRepairContent(req.entry, args, Returned(r), ChatContent(r)))
    /\ UNCHANGED <<env, req, args>>

\* solver.js:669-688: the revision returns
RevisionResponse ==
    /\ pc = "revise"
    /\ chat.phase = "fetch"
    /\ \E r \in Returning(IterationContents) :
         Become(OnRevisionContent(req.entry, args, Returned(r), ChatContent(r)))
    /\ UNCHANGED <<env, req, args>>

Appendix(text) ==
    [kind |-> "json", rec |-> [appendixLatex |-> text, main_result_latex |-> ""]]

SynthesisContents ==
    {Empty, Prose, Appendix(""), Appendix("\\section{Details}"),
     [Appendix("") EXCEPT !.rec.main_result_latex = "E_s"]}

\* synthesizeAppendix solver.js:444-445 and solver.js:699: syn?.appendixLatex || ''
AppendixOf(content) == IF content.kind = "json" THEN content.rec.appendixLatex ELSE ""

\* solver.js:700: syn?.main_result_latex
MainOf(content) == IF content.kind = "json" THEN content.rec.main_result_latex ELSE ""

\* solver.js:698-722: the synthesis call returns
\* (an error body whose model output was repaired gives a record without appendixLatex)
SynthesisResponse ==
    /\ pc = "synth"
    /\ chat.phase = "fetch"
    /\ \E r \in Returning(SynthesisContents) :
         Become(Finish(req.entry, Returned(r),
                       IF RespOk(r) THEN AppendixOf(r.content) ELSE "",
                       IF RespOk(r) THEN MainOf(r.content) ELSE ""))
    /\ UNCHANGED <<env, req, args>>

Init ==
    /\ env \in [hasKey : BOOLEAN, smallModel : BOOLEAN, retries : 0..MaxRetries,
                 base : {DefaultBaseDelayMs}]
    /\ req = NoReq
    /\ args = Null
    /\ pc = "idle"
    /\ plan = 0
    /\ iterations = <<>>
    /\ k = 0
    /\ stop = FALSE
    /\ parsed = Null
    /\ chat = IdleChat
    /\ hist = NoHist
    /\ out = NoOut

Next ==
    \/ HandlerRequest
    \/ IntentResponse
    \/ SolveDirect
    \/ PlanResponse
    \/ RoundDelayElapsed
    \/ ChatAttemptFails
    \/ ChatRetry
    \/ ChatExhausted
    \/ IterationResponse
    \/ RepairResponse
    \/ RevisionResponse
    \/ SynthesisResponse

Spec == Init /\ [][Next]_vars

\* every awaited fetch settles and every timer fires
FairSpec == Spec /\ WF_vars(Next)

(***************************************************************************)
(* The runs of callers of solveSchrodingerIterative with a credential and  *)
(* a model that is not small, every awaited fetch settling and every timer *)
(* firing.                                                                 *)
(***************************************************************************)
RunInit == Init /\ env.hasKey /\ ~env.smallModel /\ env.retries = MaxRetries

RunNext ==
    \/ SolveDirect
    \/ PlanResponse
    \/ RoundDelayElapsed
    \/ ChatAttemptFails
    \/ ChatRetry
    \/ ChatExhausted
    \/ IterationResponse
    \/ RepairResponse
    \/ RevisionResponse
    \/ SynthesisResponse

FairRunSpec == RunInit /\ [][RunNext]_vars /\ WF_vars(RunNext)

(***************************************************************************)
(* One call of callChat on its own, solver.js:6-67: the state right after  *)
(* the call (first fetch pending), for each maxRetries, then the responses *)
(* and the backoff timers until the call returns or throws.                *)
(***************************************************************************)
ChatInit ==
    /\ env \in [hasKey : {TRUE}, smallModel : {FALSE}, retries : (-1)..MaxCallRetries,
                 base : {0, 100, DefaultBaseDelayMs}]
    /\ req = [NoReq EXCEPT !.entry = "chat", !.method = "call"]
    /\ args = Null
    /\ pc = IF AttemptsRemain(0, Retries) THEN "call" ELSE "done"
    /\ plan = 0
    /\ iterations = <<>>
    /\ k = 0
    /\ stop = FALSE
    /\ parsed = Null
    /\ chat = IF AttemptsRemain(0, Retries) THEN NewChat ELSE IdleChat
    /\ hist = NoHist
    /\ out = IF AttemptsRemain(0, Retries) THEN NoOut
             ELSE [NoOut EXCEPT !.status = "raised", !.error = ThrownAtExit(NoErr)]

\* solver.js:38-44, 56: the call returns the response's data
ChatCallReturns ==
    /\ pc = "call"
    /\ chat.phase = "fetch"
    /\ \E r \in Returning(IterationContents)
                  \cup {e \in ErrorBodyResponses : ChatOutcome(e) = "return"} :
         Become([Returned(r) EXCEPT
                    !.pc = "done",
                    !.chat = [@ EXCEPT !.phase = "idle"],
                    !.out = [status |-> "returned", result |-> [content |-> ChatContent(r)],
                             error |-> NoErr, http |-> 0]])
    /\ UNCHANGED <<env, req, args>>

ChatNext ==
    \/ ChatAttemptFails
    \/ ChatRetry
    \/ ChatExhausted
    \/ ChatCallReturns

\* every awaited fetch settles and every backoff timer fires
ChatSpec == ChatInit /\ [][ChatNext]_vars /\ WF_vars(ChatNext)

(***************************************************************************)
(* extractJSON and repairIncompleteJSON on texts, solver.js:253-364.       *)
(* A text is a sequence of one-character strings.                          *)
(***************************************************************************)
Q == "\""
BS == "\\"

IsDigit(c) == c \in {"0", "1", "2", "3", "4", "5", "6", "7", "8", "9"}

\* the least element of a non-empty set of positions, 0 for the empty set
FirstOf(S) == IF S = {} THEN 0 ELSE CHOOSE i \in S : \A j \in S : i <= j

\* s.indexOf(c, from), 1-based; 0 stands for -1
indexOf(s, c, from) == FirstOf({i \in from..Len(s) : s[i] = c})

\* the grammar JSON.parse accepts, on the characters the texts use: the
\* operators return the position after the construct, 0 if there is none
RECURSIVE SkipWs(_, _)
SkipWs(s, i) == IF i <= Len(s) /\ s[i] = " " THEN SkipWs(s, i + 1) ELSE i

RECURSIVE StringEnd(_, _)
StringEnd(s, i) ==
    IF i > Len(s) THEN 0
    ELSE IF s[i] = Q THEN i + 1
    ELSE IF s[i] = BS THEN (IF i + 1 > Len(s) THEN 0 ELSE StringEnd(s, i + 2))
    ELSE StringEnd(s, i + 1)

RECURSIVE DigitsEnd(_, _)
DigitsEnd(s, i) == IF i <= Len(s) /\ IsDigit(s[i]) THEN DigitsEnd(s, i + 1) ELSE i

RECURSIVE ValueEnd(_, _)
RECURSIVE MembersEnd(_, _)
RECURSIVE ElementsEnd(_, _)
ValueEnd(s, i0) ==
    LET i == SkipWs(s, i0)
    IN  IF i > Len(s) THEN 0
        ELSE IF s[i] = Q THEN StringEnd(s, i + 1)
        ELSE IF s[i] = "0" THEN i + 1
        ELSE IF IsDigit(s[i]) THEN DigitsEnd(s, i)
        ELSE IF s[i] = "{"
             THEN LET j == SkipWs(s, i + 1)
                  IN  IF j <= Len(s) /\ s[j] = "}" THEN j + 1 ELSE MembersEnd(s, j)
        ELSE IF s[i] = "["
             THEN LET j == SkipWs(s, i + 1)
                  IN  IF j <= Len(s) /\ s[j] = "]" THEN j + 1 ELSE ElementsEnd(s, j)
        ELSE 0

MembersEnd(s, i) ==
    IF i > Len(s) \/ s[i] # Q THEN 0
    ELSE LET a == StringEnd(s, i + 1)
             b == IF a = 0 THEN 0 ELSE SkipWs(s, a)
             c == IF b = 0 \/ b > Len(s) \/ s[b] # ":" THEN 0 ELSE ValueEnd(s, b + 1)
             d == IF c = 0 THEN 0 ELSE SkipWs(s, c)
         IN  IF d = 0 \/ d > Len(s) THEN 0
             ELSE IF s[d] = "}" THEN d + 1
             ELSE IF s[d] = "," THEN MembersEnd(s, SkipWs(s, d + 1))
             ELSE 0

ElementsEnd(s, i) ==
    LET c == ValueEnd(s, i)
        d == IF c = 0 THEN 0 ELSE SkipWs(s, c)
    IN  IF d = 0 \/ d > Len(s) THEN 0
        ELSE IF s[d] = "]" THEN d + 1
        ELSE IF s[d] = "," THEN ElementsEnd(s, SkipWs(s, d + 1))
        ELSE 0

\* JSON.parse(t) does not throw
JSONparses(t) ==
    LET e == ValueEnd(t, 1)
    IN  e # 0 /\ SkipWs(t, e) = Len(t) + 1

\* a JavaScript value read from a parsed object, or a literal of the code
Missing == [type |-> "undefined", num |-> 0, chars |-> <<>>, text |-> ""]
NumberValue(n) == [Missing EXCEPT !.type = "number", !.num = n]
Literal(str) == [Missing EXCEPT !.type = "string", !.text = str]

\* parseInt of a run of digits
RECURSIVE parseInt(_)
parseInt(ds) ==
    LET Digits == <<"0", "1", "2", "3", "4", "5", "6", "7", "8", "9">>
        last == ds[Len(ds)]
    IN  IF ds = <<>> THEN 0
        ELSE 10 * parseInt(SubSeq(ds, 1, Len(ds) - 1))
             + (CHOOSE n \in 0..9 : Digits[n + 1] = last)

\* obj[key] for the object that starts before member position i of the text t
\* that parsed (a later member of the same name wins)
RECURSIVE Member(_, _, _)
Member(t, i, key) ==
    IF i > Len(t) \/ t[i] # Q THEN Missing
    ELSE LET a == StringEnd(t, i + 1)
             v == SkipWs(t, SkipWs(t, a) + 1)
             c == ValueEnd(t, v)
             d == SkipWs(t, c)
             later == IF t[d] = "," THEN Member(t, SkipWs(t, d + 1), key) ELSE Missing
             value ==
                 IF IsDigit(t[v]) THEN NumberValue(parseInt(SubSeq(t, v, c - 1)))
                 ELSE IF t[v] = Q
                 THEN [Missing EXCEPT !.type = "string", !.chars = SubSeq(t, v + 1, c - 2)]
                 ELSE [Missing EXCEPT !.type = IF t[v] = "[" THEN "array" ELSE "object",
                                      !.chars = SubSeq(t, v, c - 1)]
         IN  IF later # Missing THEN later
             ELSE IF SubSeq(t, i + 1, a - 2) = key THEN value
             ELSE Missing

\* !v
Falsy(v) ==
    \/ v.type = "undefined"
    \/ v.type = "number" /\ v.num = 0
    \/ v.type = "string" /\ v.chars = <<>> /\ v.text = ""

\* the object JSON.parse gives the text t: its text and the five fields the code reads
Parsed(t) ==
    LET m == SkipWs(t, 2)
    IN  [kind |-> "object", text |-> t,
         k |-> Member(t, m, <<"k">>),
         goal |-> Member(t, m, <<"g", "o", "a", "l">>),
         analysis |-> Member(t, m, <<"a", "n", "a", "l", "y", "s", "i", "s">>),
         equations |-> Member(t, m, <<"e", "q", "u", "a", "t", "i", "o", "n", "s">>),
         result_summary |-> Member(t, m, <<"r", "e", "s", "u", "l", "t", "_",
                                           "s", "u", "m", "m", "a", "r", "y">>)]

EmptyArray == [Missing EXCEPT !.type = "array", !.chars = <<"[", "]">>]

\* solver.js:298-334: the counting pass over json (a quote toggles inString
\* unless the character before it is a backslash; braces and brackets count
\* outside strings), then the open string, the arrays and the objects closed
Closed(json) ==
    LET toggles == {j \in 1..Len(json) : json[j] = Q /\ (j = 1 \/ json[j - 1] # BS)}
        InString(i) == Cardinality({j \in toggles : j < i}) % 2 = 1
        Count(c) == Cardinality({i \in 1..Len(json) :
                                    json[i] = c /\ i \notin toggles /\ ~InString(i)})
        braceDepth == Count("{") - Count("}")
        bracketDepth == Count("[") - Count("]")
    IN  json \o (IF Cardinality(toggles) % 2 = 1 THEN <<Q>> ELSE <<>>)
             \o [i \in 1..bracketDepth |-> "]"]
             \o [i \in 1..braceDepth |-> "}"]

\* solver.js:353-354: s.match(/"k"\s*:\s*(\d+)/), the digits of the leftmost match
kMatch(s) ==
    LET Colon(p) == SkipWs(s, p + 3)
        Digit(p) == SkipWs(s, Colon(p) + 1)
        p0 == FirstOf({p \in 1..(Len(s) - 2) :
                          /\ s[p] = Q /\ s[p + 1] = "k" /\ s[p + 2] = Q
                          /\ Colon(p) <= Len(s) /\ s[Colon(p)] = ":"
                          /\ Digit(p) <= Len(s) /\ IsDigit(s[Digit(p)])})
    IN  IF p0 = 0 THEN <<>> ELSE SubSeq(s, Digit(p0), DigitsEnd(s, Digit(p0)) - 1)

\* a repair that gives up where the closed text does not parse
repairIncompleteJSONTextNoFallback(s) ==
    LET start == indexOf(s, "{", 1)
        closed == Closed(SubSeq(s, start, Len(s)))
    IN  IF start # 0 /\ JSONparses(closed) THEN Parsed(closed) ELSE Null

\* a repair that returns the parsed object without the defaults of
\* solver.js:339-343
repairIncompleteJSONTextNoDefaults(s) ==
    LET start == indexOf(s, "{", 1)
        closed == Closed(SubSeq(s, start, Len(s)))
        digits == kMatch(s)
    IN  IF s = <<>> \/ start = 0 THEN Null
        ELSE IF JSONparses(closed) THEN Parsed(closed)
        ELSE [kind |-> "object", text |-> <<>>,
              k |-> NumberValue(IF digits # <<>> THEN parseInt(digits) ELSE 1),
              goal |-> Literal(FallbackGoal),
              analysis |-> Literal(FallbackAnalysis),
              equations |-> EmptyArray,
              result_summary |-> Literal(FallbackSummary)]

\* repairIncompleteJSON(s), solver.js:289-364
repairIncompleteJSONText(s) ==
    LET start == indexOf(s, "{", 1)
        closed == Closed(SubSeq(s, start, Len(s)))
        digits == kMatch(s)
    IN  IF s = <<>> \/ start = 0 THEN Null
        ELSE IF JSONparses(closed)
        THEN [Parsed(closed) EXCEPT
                 !.k = IF Falsy(@) THEN NumberValue(1) ELSE @,
                 !.goal = IF Falsy(@) THEN Literal("Continue derivation") ELSE @,
                 !.analysis = IF Falsy(@) THEN Literal("Continuing the solution") ELSE @,
                 !.equations = IF Falsy(@) \/ @.type # "array" THEN EmptyArray ELSE @,
                 !.result_summary =
                     IF Falsy(@) THEN Literal("Partial iteration (output was truncated)") ELSE @]
        ELSE [kind |-> "object", text |-> <<>>,
              k |-> NumberValue(IF digits # <<>> THEN parseInt(digits) ELSE 1),
              goal |-> Literal(FallbackGoal),
              analysis |-> Literal(FallbackAnalysis),
              equations |-> EmptyArray,
              result_summary |-> Literal(FallbackSummary)]

\* solver.js:263-278: the first span from a '{' to where the depth counted
\* from it returns to 0 that parses, <<>> if there is none
RECURSIVE BalancedSpan(_, _)
BalancedSpan(s, start) ==
    IF start = 0 THEN <<>>
    ELSE LET Depth(i) == Cardinality({j \in start..i : s[j] = "{"})
                         - Cardinality({j \in start..i : s[j] = "}"})
             close == FirstOf({i \in start..Len(s) : Depth(i) = 0})
             candidate == SubSeq(s, start, close)
         IN  IF close # 0 /\ JSONparses(candidate) THEN candidate
             ELSE BalancedSpan(s, indexOf(s, "{", start + 1))

\* extractJSON(s), solver.js:253-287
extractJSONText(s) ==
    LET first == indexOf(s, "{", 1)
        closes == {i \in 1..Len(s) : s[i] = "}"}
        last == IF closes = {} THEN 0 ELSE CHOOSE i \in closes : \A j \in closes : i >= j
        greedy == IF first # 0 /\ last > first THEN SubSeq(s, first, last) ELSE <<>>
        span == BalancedSpan(s, first)
    IN  IF s = <<>> THEN Null
        ELSE IF greedy # <<>> /\ JSONparses(greedy) THEN Parsed(greedy)
        ELSE IF span # <<>> THEN Parsed(span)
        ELSE repairIncompleteJSONText(s)

\* {"k":1,"goal":"g","equations":[{"latex":"a","text":"b"}]}
ObjNested ==
    <<"{", Q, "k", Q, ":", "1", ",", Q, "g", "o", "a", "l", Q, ":", Q, "g", Q, ",",
      Q, "e", "q", "u", "a", "t", "i", "o", "n", "s", Q, ":", "[", "{",
      Q, "l", "a", "t", "e", "x", Q, ":", Q, "a", Q, ",",
      Q, "t", "e", "x", "t", Q, ":", Q, "b", Q, "}", "]", "}">>

\* {"k":1,"goal":"g","equations":[{"latex":"a","text":"b
TruncatedExample == SubSeq(ObjNested, 1, Len(ObjNested) - 4)

\* the texts extractJSON is applied to: valid objects (plain, with spaces,
\* with braces or an escaped quote in a string value) between prose without
\* and with brace characters; every proper prefix of ObjNested; texts without
\* an object
ExtractInputs ==
    LET Goal(chars) == <<"{", Q, "g", "o", "a", "l", Q, ":", Q>> \o chars \o <<Q, "}">>
        EmbeddedObjects ==
            { ObjNested,
              <<"{", "}">>,
              <<"{", Q, "k", Q, ":", "7", "}">>,
              <<"{", Q, "k", Q, ":", " ", "1", "2", ",", Q, "g", "o", "a", "l", Q, ":",
                Q, "g", Q, "}">>,
              Goal(<<"a", "}">>), Goal(<<"a", "{">>), Goal(<<"{", "a", "}">>),
              Goal(<<BS, Q, "a">>) }
        ProseBefore == {<<>>, <<"s", "e", "e", " ">>, <<"{", "n", "}", " ">>,
                        <<"{", " ">>, <<"}", " ">>}
        ProseAfter == {<<>>, <<" ", "o", "k">>, <<" ", "{", "n", "}">>,
                       <<" ", "}">>, <<" ", "{">>}
    IN  { [text |-> b \o o \o a, embedded |-> o] :
              b \in ProseBefore, o \in EmbeddedObjects, a \in ProseAfter }
          \cup { [text |-> SubSeq(ObjNested, 1, n), embedded |-> <<>>] :
                    n \in 0..(Len(ObjNested) - 1) }
          \cup { [text |-> t, embedded |-> <<>>] :
                    t \in {<<" ">>, <<"n", "o">>, <<"}">>, <<"{", "n", "}">>,
                           <<"{", Q, "k", Q, " ", ":", " ", "4", "2", ",", "x">>} }

\* extractJSON has been called on a text
ExtractInit ==
    /\ env = [hasKey |-> TRUE, smallModel |-> FALSE, retries |-> 0, base |-> DefaultBaseDelayMs]
    /\ req = [NoReq EXCEPT !.entry = "extract", !.method = "call"]
    /\ args \in ExtractInputs
    /\ pc = "extract"
    /\ plan = 0
    /\ iterations = <<>>
    /\ k = 0
    /\ stop = FALSE
    /\ parsed = Null
    /\ chat = IdleChat
    /\ hist = NoHist
    /\ out = NoOut

\* solver.js:253-287: extractJSON returns
ExtractReturns ==
    /\ pc = "extract"
    /\ pc' = "done"
    /\ parsed' = extractJSONText(args.text)
    /\ out' = [NoOut EXCEPT !.status = "returned"]
    /\ UNCHANGED <<env, req, args, plan, iterations, k, stop, chat, hist>>

ExtractSpec == ExtractInit /\ [][ExtractReturns]_vars

(***************************************************************************)
(* repairIncompleteJSON alone, as callChat calls it on an error body's     *)
(* model output (solver.js:44) and extractJSON on its text (solver.js:282).*)
(***************************************************************************)
\* the texts repairIncompleteJSON is applied to: every prefix of ObjNested,
\* with and without prose in front; objects that parse as they are, lacking
\* fields or carrying falsy or wrongly typed ones; texts no closing repairs,
\* with and without a "k" member; texts without '{'
RepairInputs ==
    LET Obj(members) == <<"{">> \o members \o <<"}">>
        K(d) == <<Q, "k", Q, ":", d>>
        Eqn(v) == <<Q, "e", "q", "u", "a", "t", "i", "o", "n", "s", Q, ":">> \o v
        GoalEmpty == <<Q, "g", "o", "a", "l", Q, ":", Q, Q>>
    IN  { [text |-> b \o SubSeq(ObjNested, 1, n)] :
              b \in {<<>>, <<"s", "e", "e", " ">>}, n \in 0..Len(ObjNested) }
          \cup { [text |-> t] :
                    t \in { Obj(<<>>), Obj(K("0")), Obj(K("7") \o <<",">> \o GoalEmpty),
                            Obj(Eqn(<<Q, "x", Q>>)), Obj(Eqn(<<"{", "}">>)),
                            Obj(Eqn(<<"[", "]">>)), Obj(Eqn(<<"0">>)),
                            <<"{", Q, "k", Q, " ", ":", " ", "4", "2", ",", "x">>,
                            <<"{", Q, "k", Q, ":", "0", ",", "x">>,
                            <<"{", "n", "}">>, <<"{", "]">>, <<"n", "o">>, <<"}">>, <<" ">>} }

\* repairIncompleteJSON has been called on a text
RepairInit ==
    /\ env = [hasKey |-> TRUE, smallModel |-> FALSE, retries |-> 0, base |-> DefaultBaseDelayMs]
    /\ req = [NoReq EXCEPT !.entry = "repairJSON", !.method = "call"]
    /\ args \in RepairInputs
    /\ pc = "repairJSON"
    /\ plan = 0
    /\ iterations = <<>>
    /\ k = 0
    /\ stop = FALSE
    /\ parsed = Null
    /\ chat = IdleChat
    /\ hist = NoHist
    /\ out = NoOut

\* solver.js:289-364: repairIncompleteJSON returns
RepairReturns ==
    /\ pc = "repairJSON"
    /\ pc' = "done"
    /\ parsed' = repairIncompleteJSONText(args.text)
    /\ out' = [NoOut EXCEPT !.status = "returned"]
    /\ UNCHANGED <<env, req, args, plan, iterations, k, stop, chat, hist>>

RepairSpec == RepairInit /\ [][RepairReturns]_vars

(***************************************************************************)
(* validateIteration alone: one call on a candidate, the previous          *)
(* iteration and a detail level, solver.js:465-568.                        *)
(***************************************************************************)
\* the most equations a candidate of this development carries
MaxEquations == 6

\* what one call writes with console.warn: nothing for a missing candidate
\* (solver.js:466), otherwise the warning of the first check that fails,
\* after which the function returns (solver.js:475-564)
validationWarnings(it, last, detailLevel) ==
    IF it = Null THEN <<>>
    ELSE LET eqs == it.equations
         IN  CASE ~CountOk(eqs) -> <<"Insufficient equations">>
               [] ~NoEmptyEquation(eqs) -> <<"Found empty equations">>
               [] ~JustifiedOk(eqs) -> <<"Insufficient justifications">>
               [] ~SummaryLenOk(it) -> <<"Insufficient result summary">>
               [] ~AnalysisLenOk(it) -> <<"Insufficient analysis">>
               [] ~NotRedundant(eqs, last) -> <<"Redundant with previous iteration">>
               [] ~RigorOk(it, eqs) -> <<"Insufficient physics rigor checks">>
               [] ~MathOk(eqs) -> <<"Insufficient mathematical content">>
               [] ~GoalLenOk(it) -> <<"Insufficient goal statement">>
               [] OTHER -> <<>>

ValidateInputs ==
    LET Firsts == {EqA, EqAUpper, EqB, EqBare, EqEmpty}
        Rests == {EqA, EqB, EqBare}
        Its == { Iteration(9, g, a, Eqs(n, f, r), s, FALSE) :
                    g \in {GoalShort, GoalOk}, a \in {AnalysisShort, AnalysisOk},
                    n \in 0..MaxEquations, f \in Firsts, r \in Rests,
                    s \in {SummaryShort, SummaryOk} }
               \cup
               \* three of five equations justified, four of five with a token
               { Iteration(9, GoalOk, AnalysisOk,
                           <<EqB, EqA, EqA, [latex |-> "c=d", text |-> "ok"], EqBare>>,
                           SummaryOk, FALSE) }
        Lasts == { Iteration(1, GoalOk, AnalysisOk, e, SummaryOk, FALSE) :
                    e \in {<<>>, Eqs(MinEquations, EqA, EqB), Eqs(MinEquations, EqB, EqA),
                           Eqs(MinEquations, EqEmpty, EqBare)} }
    IN  [it : Its \cup {Null}, last : Lasts \cup {Null}, detailLevel : DetailLevels]

ValidateInit ==
    /\ env = [hasKey |-> TRUE, smallModel |-> FALSE, retries |-> 0, base |-> DefaultBaseDelayMs]
    /\ req = [NoReq EXCEPT !.entry = "validate", !.method = "call"]
    /\ args \in ValidateInputs
    /\ pc = "validate"
    /\ plan = 0
    /\ iterations = <<>>
    /\ k = 0
    /\ stop = FALSE
    /\ parsed = Null
    /\ chat = IdleChat
    /\ hist = NoHist
    /\ out = NoOut

\* solver.js:465-568: validateIteration returns true or false
ValidateReturns ==
    /\ pc = "validate"
    /\ pc' = "done"
    /\ hist' = [NoHist EXCEPT !.lastVal =
                   [it |-> args.it, last |-> args.last,
                    ok |-> validateIteration(args.it, args.last, args.detailLevel),
                    warned |-> validationWarnings(args.it, args.last, args.detailLevel)]]
    /\ out' = [NoOut EXCEPT !.status = "returned"]
    /\ UNCHANGED <<env, req, args, plan, iterations, k, stop, parsed, chat>>

ValidateSpec == ValidateInit /\ [][ValidateReturns]_vars

(***************************************************************************)
(* esc(s), intent.js:39-46, on texts as sequences of characters.           *)
(***************************************************************************)
\* the longest text of free characters given to esc
MaxEscLen == 3

StringValue(cs) == [Missing EXCEPT !.type = "string", !.chars = cs]

\* s.replace(/[S]/g, '\\$&'): every character of S gets a backslash in front
RECURSIVE escapeEach(_, _)
escapeEach(cs, S) ==
    IF cs = <<>> THEN <<>>
    ELSE (IF Head(cs) \in S THEN <<BS, Head(cs)>> ELSE <<Head(cs)>>)
            \o escapeEach(Tail(cs), S)

\* the four passes with the backslash pass last
escBackslashLast(s) ==
    IF s.type # "string" THEN <<>>
    ELSE escapeEach(escapeEach(escapeEach(escapeEach(s.chars,
            {"#", "%", "&", "_", "$", "~", "^"}), {"{"}), {"}"}), {BS})

\* intent.js:39-46: not a string gives '', a string goes through four passes
esc(s) ==
    IF s.type # "string" THEN <<>>
    ELSE escapeEach(escapeEach(escapeEach(escapeEach(s.chars,
            {BS}), {"#", "%", "&", "_", "$", "~", "^"}), {"{"}), {"}"})

EscInputs ==
    LET Alphabet == {BS, "#", "%", "&", "_", "$", "~", "^", "{", "}", "a"}
        Free == UNION { [1..n -> Alphabet] : n \in 0..MaxEscLen }
        Given == { <<"1", "0", "0", "%", " ", "A", "&", "B", "_", "C">>,
                   <<BS, "f", "r", "a", "c", "{", "a", "}", "{", "b", "}">> }
    IN  { StringValue(cs) : cs \in Free \cup Given } \cup {Missing, NumberValue(5)}

EscInit ==
    /\ env = [hasKey |-> TRUE, smallModel |-> FALSE, retries |-> 0, base |-> DefaultBaseDelayMs]
    /\ req = [NoReq EXCEPT !.entry = "esc", !.method = "call"]
    /\ args \in [s : EscInputs]
    /\ pc = "esc"
    /\ plan = 0
    /\ iterations = <<>>
    /\ k = 0
    /\ stop = FALSE
    /\ parsed = Null
    /\ chat = IdleChat
    /\ hist = NoHist
    /\ out = NoOut

\* intent.js:39-46: esc returns
EscReturns ==
    /\ pc = "esc"
    /\ pc' = "done"
    /\ parsed' = StringValue(esc(args.s))
    /\ out' = [NoOut EXCEPT !.status = "returned"]
    /\ UNCHANGED <<env, req, args, plan, iterations, k, stop, chat, hist>>

EscSpec == EscInit /\ [][EscReturns]_vars

(***************************************************************************)
(* normalizeLatexTokens alone, on the characters of a text,                *)
(* solver.js:448-456.                                                      *)
(***************************************************************************)
\* the most pieces a text of this development is made of
MaxNormParts == 3

\* the five command names, in the order of the five replace passes
TokenNames ==
    << <<"l", "a", "m", "b", "d", "a">>, <<"h", "b", "a", "r">>, <<"x", "i">>,
       <<"i", "n", "f", "t", "y">>, <<"v", "a", "r", "e", "p", "s", "i", "l", "o", "n">> >>

\* \w of a regular expression, on the characters the texts use
IsWordChar(c) ==
    c \in {"a", "b", "d", "e", "f", "h", "i", "l", "m", "n", "o", "p", "r", "s", "t",
           "v", "x", "y", "_", "2"}

\* /\bw\b/ matches at position i of s
MatchesAt(s, i, w) ==
    /\ i + Len(w) - 1 <= Len(s)
    /\ SubSeq(s, i, i + Len(w) - 1) = w
    /\ i = 1 \/ ~IsWordChar(s[i - 1])
    /\ i + Len(w) > Len(s) \/ ~IsWordChar(s[i + Len(w)])

\* s.replace(/\bw\b/g, '\\w') from position i on
RECURSIVE replaceToken(_, _, _)
replaceToken(s, i, w) ==
    IF i > Len(s) THEN <<>>
    ELSE IF MatchesAt(s, i, w) THEN <<BS>> \o w \o replaceToken(s, i + Len(w), w)
    ELSE <<s[i]>> \o replaceToken(s, i + 1, w)

\* solver.js:448-456: a falsy or non-string argument is returned as it is, a
\* string goes through the five passes
normalizeLatexTokensText(v) ==
    LET Pass(s, n) == replaceToken(s, 1, TokenNames[n])
    IN  IF v.type # "string" \/ v.chars = <<>> THEN v
        ELSE StringValue(Pass(Pass(Pass(Pass(Pass(v.chars, 1), 2), 3), 4), 5))

\* the texts: up to MaxNormParts pieces, each a command name, a backslash, a
\* blank, a letter or an equals sign
NormInputs ==
    LET Pieces == { TokenNames[n] : n \in 1..5 } \cup {<<BS>>, <<" ">>, <<"x">>, <<"=">>}
        RECURSIVE Texts(_)
        Texts(n) == IF n = 0 THEN {<<>>}
                    ELSE Texts(n - 1) \cup { t \o q : t \in Texts(n - 1), q \in Pieces }
    IN  { StringValue(cs) : cs \in Texts(MaxNormParts) } \cup {Missing, NumberValue(5)}

NormInit ==
    /\ env = [hasKey |-> TRUE, smallModel |-> FALSE, retries |-> 0, base |-> DefaultBaseDelayMs]
    /\ req = [NoReq EXCEPT !.entry = "normalize", !.method = "call"]
    /\ args \in [s : NormInputs]
    /\ pc = "normalize"
    /\ plan = 0
    /\ iterations = <<>>
    /\ k = 0
    /\ stop = FALSE
    /\ parsed = Null
    /\ chat = IdleChat
    /\ hist = NoHist
    /\ out = NoOut

\* solver.js:448-456: normalizeLatexTokens returns
NormReturns ==
    /\ pc = "normalize"
    /\ pc' = "done"
    /\ parsed' = normalizeLatexTokensText(args.s)
    /\ out' = [NoOut EXCEPT !.status = "returned"]
    /\ UNCHANGED <<env, req, args, plan, iterations, k, stop, chat, hist>>

NormSpec == NormInit /\ [][NormReturns]_vars

(***************************************************************************)
(* One chat call for a configured provider, as the two clients make it:    *)
(* callLLM (provider.js:161-205), which sends a Gemini configuration       *)
(* through callGemini (255-329) and every other one through                *)
(* callChatWithRetry (210-250), and the solver, which takes apiUrl and     *)
(* apiKey from getLLMConfig (solver.js:599-600) and calls its own callChat *)
(* (solver.js:6-67) whatever the provider is.                              *)
(***************************************************************************)
Providers == {"groq", "gemini"}

\* provider.js:70: only the Gemini configuration carries isGemini
isGemini(provider) == provider = "gemini"

\* the body of a 2xx response in the wire shape of the provider: a list of
\* choices with a content each, or a list of candidates with a text each
WireData(provider, texts) ==
    IF isGemini(provider)
    THEN [choices |-> <<>>, candidates |-> texts]
    ELSE [choices |-> texts, candidates |-> <<>>]

\* what a provider answers with status 200: an OpenAI-style provider one
\* choice, Gemini one candidate or none (a blocked prompt)
WireAnswers(provider) ==
    IF isGemini(provider)
    THEN {WireData(provider, ts) : ts \in {<<>>, <<"">>, <<"{}">>}}
    ELSE {WireData(provider, ts) : ts \in {<<"">>, <<"{}">>}}

\* provider.js:313-323: the Gemini response reshaped
geminiToOpenAI(data) ==
    [choices |-> <<IF Len(data.candidates) > 0 THEN data.candidates[1] ELSE "">>,
     candidates |-> <<>>]

\* the function that makes the call: provider.js:173, solver.js:653
ClientOf(a) ==
    IF a.via = "callLLM"
    THEN (IF isGemini(a.provider) THEN "callGemini" ELSE "callChatWithRetry")
    ELSE "callChat"

\* one pass through the try block of callChatWithRetry, provider.js:217-238
callChatWithRetryOutcome(r) ==
    IF r.status = 0 THEN "caught"
    ELSE IF r.status = 429 \/ r.status >= 500 THEN "captured"
    ELSE IF ~RespOk(r) THEN "caught"
    ELSE IF r.parses THEN "return" ELSE "caught"

\* one pass through the try block of callGemini, provider.js:292-327
callGeminiOutcome(r) ==
    IF r.status = 0 THEN "caught"
    ELSE IF r.status = 429 \/ r.status >= 500 THEN "captured"
    ELSE IF ~RespOk(r) THEN "caught"
    ELSE IF r.parses THEN "return" ELSE "caught"

ClientOutcome(client, r) ==
    CASE client = "callGemini" -> callGeminiOutcome(r)
      [] client = "callChatWithRetry" -> callChatWithRetryOutcome(r)
      [] OTHER -> ChatOutcome(r)

\* what the client returns for the data of a 2xx response
ClientData(client, data) ==
    IF client = "callGemini" THEN geminiToOpenAI(data) ELSE data

\* data.choices?.[0]?.message?.content || '', solver.js:655
contentRead(data) == IF Len(data.choices) > 0 THEN data.choices[1] ELSE ""

LLMInit ==
    /\ env \in [hasKey : {TRUE}, smallModel : {FALSE}, retries : 0..MaxCallRetries,
                 base : {DefaultBaseDelayMs}]
    /\ req = [NoReq EXCEPT !.entry = "llm", !.method = "call"]
    /\ args \in [provider : Providers, via : {"callLLM", "solver"}]
    /\ pc = "call"
    /\ plan = 0
    /\ iterations = <<>>
    /\ k = 0
    /\ stop = FALSE
    /\ parsed = Null
    /\ chat = NewChat
    /\ hist = NoHist
    /\ out = NoOut

\* an attempt ends without a return: lastErr is set and the backoff starts
LLMAttemptFails ==
    /\ pc = "call"
    /\ chat.phase = "fetch"
    /\ \E r \in FailureResponses :
         /\ ClientOutcome(ClientOf(args), r) # "return"
         /\ \E j \in JitterSamples :
              chat' = [chat EXCEPT !.phase = "backoff", !.lastErr = ChatError(r), !.resp = r,
                                   !.wait = backoffWait(Base, chat.attempt, j)]
    /\ UNCHANGED <<env, req, args, pc, plan, iterations, k, stop, parsed, hist, out>>

\* a 2xx response with a JSON body, or for callChat an error body whose
\* model output was repaired (solver.js:29-44, returned as one choice): the
\* client returns and the stage reads the content
LLMCallReturns ==
    /\ pc = "call"
    /\ chat.phase = "fetch"
    /\ \E w \in WireAnswers(args.provider) \cup
                 {WireData("groq", <<"{}">>) :
                    r \in {f \in FailureResponses : ClientOutcome(ClientOf(args), f) = "return"}} :
         LET data == ClientData(ClientOf(args), w)
         IN  /\ out' = [status |-> "returned",
                        result |-> [data |-> data, content |-> contentRead(data), wire |-> w],
                        error |-> NoErr, http |-> 0]
             /\ chat' = [chat EXCEPT !.phase = "idle"]
             /\ pc' = "done"
    /\ UNCHANGED <<env, req, args, plan, iterations, k, stop, parsed, hist>>

LLMNext ==
    \/ LLMAttemptFails
    \/ ChatRetry
    \/ ChatExhausted
    \/ LLMCallReturns

LLMSpec == LLMInit /\ [][LLMNext]_vars

(***************************************************************************)
(* Two calls of solveSchrodingerIterative in one process.  JavaScript runs *)
(* one of them at a time and changes over only where the running one       *)
(* awaits (a fetch or a delay).  The variables hold the run that is        *)
(* executing; req.peer holds the locals of the suspended one (solver.js:   *)
(* 598-723 declares every variable of a run inside the function; the       *)
(* module has no variable of its own besides constants).                   *)
(***************************************************************************)
\* how often the executing run changes in a behaviour of PairSpec
MaxSwitches == 2

\* the rounds the two runs of a behaviour of PairSpec may ask for together
MaxPairRounds == 3

PairArgs ==
    { [maxIterations |-> mi, temperature |-> DefaultTemperatureTenths,
       detailLevel |-> dl, strategy |-> "baseline", provider |-> "groq"] :
         mi \in 1..2, dl \in {"standard"} }

\* the suspended run: its locals and its arguments
Suspended(R, a) == [run |-> R, args |-> a]

\* the iteration list kept in a variable of the module, one for both runs
ResumedSharingIterations(mine, theirs) == [theirs EXCEPT !.iterations = mine.iterations]

\* what the run that is resumed finds in its variables: its own locals
Resumed(mine, theirs) == theirs

PairInit ==
    /\ env = [hasKey |-> TRUE, smallModel |-> FALSE, retries |-> 0, base |-> DefaultBaseDelayMs]
    /\ \E a1 \in PairArgs, a2 \in PairArgs :
         /\ a1.maxIterations + a2.maxIterations <= MaxPairRounds
         /\ args = a1
         /\ req = [entry |-> "direct", method |-> "call", equation |-> TRUE,
                   nlRequest |-> FALSE, maxIterations |-> Undefined,
                   temperature |-> Undefined, detailLevel |-> a1.detailLevel,
                   strategy |-> "baseline", provider |-> "groq", focus |-> 1,
                   switches |-> 0,
                   peer |-> Suspended(Solve("direct", a2), a2)]
         /\ LET R == Solve("direct", a1)
            IN  /\ pc = R.pc
                /\ plan = R.plan
                /\ iterations = R.iterations
                /\ k = R.k
                /\ stop = R.stop
                /\ parsed = R.parsed
                /\ chat = R.chat
                /\ hist = R.hist
                /\ out = R.out

\* the executing run is at an await or has ended, and the other run's
\* awaited promise settles: the other run goes on
PairSwitch ==
    /\ req.switches < MaxSwitches
    /\ req.peer.run.pc # "done"
    /\ req' = [req EXCEPT !.focus = 3 - @, !.switches = @ + 1,
                          !.peer = Suspended(Cur, args)]
    /\ args' = req.peer.args
    /\ Become(Resumed(Cur, req.peer.run))
    /\ UNCHANGED env

\* the provider of PairSpec: it fails with status 429 only, the jitter drawn
\* is 0, and what it returns has no stop flag and k = 9 when it is a record
PairProvider ==
    /\ chat.resp # Null => chat.resp.status = 429
    /\ chat.wait \in {0, backoffWait(Base, chat.attempt, 0)}
    /\ hist.lastReturn # Null => hist.lastReturn.status = 200
    /\ hist.lastVal # Null => hist.lastVal.it.k = 9 /\ ~hist.lastVal.it.stop
    /\ \A i \in 1..Len(iterations) : ~iterations[i].stop

PairNext ==
    \/ PairSwitch
    \/ RoundDelayElapsed /\ PairProvider'
    \/ ChatAttemptFails /\ PairProvider'
    \/ ChatExhausted /\ PairProvider'
    \/ IterationResponse /\ PairProvider'
    \/ RepairResponse /\ PairProvider'
    \/ RevisionResponse /\ PairProvider'
    \/ SynthesisResponse /\ PairProvider'

PairSpec == PairInit /\ [][PairNext]_vars

(***************************************************************************)
(* Properties.                                                             *)
(***************************************************************************)
RunPcs == {"iter", "repair", "revise", "delay"}

IterationParts(doc) == SelectSeq(doc, LAMBDA x : x.part = "Iteration")

\* C1: in every reachable state of a run the k fields of the accepted
\* iterations, in list order, are 1, 2, ..., n, whatever k the model's or the
\* reviser's JSON carried.
C1_IterationNumbering ==
    \A i \in 1..Len(iterations) : iterations[i].k = i

\* two iterations accepted, the second from a JSON that carried another k
C1_Witness ==
    /\ Len(iterations) = 2
    /\ hist.lastVal # Null
    /\ hist.lastVal.ok
    /\ hist.lastVal.it.k # 2

\* C2: a record is appended to the iteration list only if validateIteration
\* returned true for it against the previously accepted iteration (undefined
\* in round 1): the step that appends appends the record validated last, and
\* that validation succeeded.
C2_AppendOnlyValidated ==
    [][Len(iterations') # Len(iterations) =>
        /\ Len(iterations') = Len(iterations) + 1
        /\ hist'.lastVal # Null
        /\ hist'.lastVal.ok
        /\ hist'.lastVal.last = LastOf(iterations)
        /\ iterations' = Append(iterations,
                                StoredIteration(hist'.lastVal.it, Len(iterations) + 1))]_vars

\* a second-round iteration stored after its revision passed the gate
C2_Witness ==
    /\ Len(iterations) = 2
    /\ hist.lastVal # Null
    /\ hist.lastVal.revision
    /\ hist.lastVal.ok
    /\ hist.lastVal.last = iterations[1]

\* C3: a round appends at most one iteration, and once a round has ended
\* without appending, no round is started, no iteration, repair or revise call
\* is pending or made, and the list no longer grows.
C3_OneAppendPerRound ==
    /\ [](Len(iterations) <= hist.rounds)
    /\ [](hist.failed # "none" => pc \notin RunPcs /\ Len(iterations) < hist.rounds)
    /\ [][/\ Len(iterations') <= Len(iterations) + 1
          /\ hist.failed # "none" =>
                /\ iterations' = iterations
                /\ hist'.rounds = hist.rounds
                /\ pc' \notin RunPcs]_vars

\* the second round failed, after a first round that was accepted, and the run went on to return
C3_Witness ==
    /\ hist.failed # "none"
    /\ hist.rounds = 2
    /\ Len(iterations) = 1
    /\ totalLoops(args, plan) > 2
    /\ out.status = "returned"

\* C4: when the candidate of round r and its revision both fail the gate, the
\* solver does not raise for it: the r-1 iterations accepted before are kept,
\* synthesis is called over them exactly when it is wanted (and only a failing
\* synthesis call can raise), and what is returned holds those r-1 iterations
\* and a document with one subsection for each of them, in order.
C4_GracefulDegradation ==
    hist.failed = "validate" =>
        /\ Len(iterations) = hist.rounds - 1
        /\ pc \in {"synth", "done"}
        /\ hist.synthCalls = (IF SynthesisWanted(args, iterations) THEN 1 ELSE 0)
        /\ pc = "done" => out.status \in {"returned", "raised"}
        /\ out.status = "raised" => hist.synthCalls = 1 /\ out.error = chat.lastErr /\ chat.lastErr.set
        /\ out.status = "returned" =>
              /\ out.result.iterations = iterations
              /\ Len(IterationParts(out.result.latex)) = Len(iterations)
              /\ \A i \in 1..Len(iterations) : IterationParts(out.result.latex)[i].k = i

\* round 2 and its revision failed; round 1's iteration, the synthesis and the document are returned
C4_Witness ==
    /\ hist.failed = "validate"
    /\ hist.rounds = 2
    /\ Len(iterations) = 1
    /\ hist.synthCalls = 1
    /\ out.status = "returned"
    /\ Len(out.result.iterations) = 1
    /\ out.result.final.appendix

\* the loop is over and the run has not raised
LoopEnded == args # Null /\ (pc = "synth" \/ (pc = "done" /\ out.status = "returned"))

RequestedMaxIterations ==
    Max(args.maxIterations,
        FiniteOr(WithDefault(req.maxIterations, DefaultMaxIterations), DefaultMaxIterations))

\* C6: the iterations of a run are never more than the maxIterations the
\* request asked for, and a run started by the /api/schrodinger handler never
\* runs more than 4 rounds.
C6_IterationsWithinRequest ==
    args # Null =>
        /\ Len(iterations) <= RequestedMaxIterations
        /\ req.entry = "endpoint" => hist.rounds <= ClampMaxIterations

StopAccepted == Len(iterations) > 0 /\ LastOf(iterations).stop

\* C8: once an accepted iteration carries stop = true no further round is run:
\* it is the last of the list, no iteration, repair or revise call follows, the
\* remaining plan steps are left, and the run is at synthesis or has finished.
C8_StopEndsLoop ==
    /\ [](\A i \in 1..(Len(iterations) - 1) : ~iterations[i].stop)
    /\ [](StopAccepted =>
            /\ stop
            /\ pc \in {"synth", "done"}
            /\ hist.rounds = Len(iterations)
            /\ hist.synthCalls = (IF SynthesisWanted(args, iterations) THEN 1 ELSE 0))
    /\ [][StopAccepted =>
            /\ iterations' = iterations
            /\ hist'.rounds = hist.rounds
            /\ pc' \in {"synth", "done"}]_vars

\* two iterations, stop on the second, plan steps left over, the run returned
C8_Witness ==
    /\ StopAccepted
    /\ Len(iterations) = 2
    /\ hist.rounds = 2
    /\ plan > 2
    /\ totalLoops(args, plan) > 2
    /\ out.status = "returned"
    /\ Len(out.result.iterations) = 2

\* a non-2xx response that is neither 429 nor >= 500
IsFatal(r) == r # Null /\ r.status # 0 /\ ~RespOk(r) /\ r.status # 429 /\ r.status < 500

\* C9: a response that is non-2xx, not 429 and below 500 is fatal: the call
\* raises right after that attempt, without a backoff wait or another request.
C9_FatalRaisedAtOnce ==
    IsFatal(chat.resp) =>
        /\ chat.phase = "idle"
        /\ chat.requests = chat.attempt + 1
        /\ out.status = "raised"

\* a response with a 2xx status (anyBody: whatever its body; else one that parses)
Is2xx(r, anyBody) == r # Null /\ RespOk(r) /\ (anyBody \/ r.parses)

\* the attempt bound of callChat, and what a call that returned on a 2xx returned
ChatAttemptsBounded ==
    /\ chat.requests <= Retries + 1
    /\ hist.lastReturn # Null /\ hist.lastReturn.status = 200 =>
          /\ hist.lastReturn.parses
          /\ pc = "done" => out.status = "returned" /\ out.result.content = hist.lastReturn.content

\* a 429 or >= 500 response is followed by another attempt while attempts remain
ChatRetriesTransient ==
    (chat.phase = "backoff" /\ Retryable(chat.resp) /\ chat.requests < Retries + 1) =>
        (chat'.phase = "fetch" /\ chat'.requests = chat.requests + 1)

\* every call of the chat client ends
ChatCallEnds == (chat.phase # "idle") ~> (chat.phase = "idle")

\* C10 as stated: at most maxRetries + 1 attempts, a 429 or >= 500 response is
\* followed by another attempt while attempts remain, the first 2xx response
\* ends the loop and its body is returned, and every call ends.
C10_AsStated ==
    /\ [](ChatAttemptsBounded /\ (chat.phase = "backoff" => ~Is2xx(chat.resp, TRUE)))
    /\ [][ChatRetriesTransient]_vars
    /\ ChatCallEnds

\* C10 amended: at most maxRetries + 1 attempts, a 429 or >= 500 response is
\* followed by another attempt while attempts remain, the first 2xx response
\* whose body parses as JSON ends the loop and is what the call returns, and
\* every call ends.
C10_ChatClientBounded ==
    /\ [](ChatAttemptsBounded /\ (chat.phase = "backoff" => ~Is2xx(chat.resp, FALSE)))
    /\ [][ChatRetriesTransient]_vars
    /\ ChatCallEnds

\* a call that met a 429, tried again and returned the body of the 2xx that followed
C10_Witness ==
    /\ pc = "done"
    /\ chat.requests = 2
    /\ chat.requests < Retries + 1
    /\ chat.resp # Null
    /\ chat.resp.status = 429
    /\ out.status = "returned"
    /\ hist.lastReturn.status = 200
    /\ out.result.content \in {Json(c) : c \in GoodCandidates}

\* C11 as stated: the backoff delay that precedes attempt i (0-indexed) is
\* baseDelay x 2^i plus a jitter in 0..100 ms.
C11_AsStated ==
    chat.phase = "backoff" =>
        LET i == chat.attempt + 1    \* the attempt the running delay precedes
        IN  chat.wait - Base * 2^i \in 0..JitterSpan

\* C11 amended: the backoff delay that follows failed attempt i (0-indexed),
\* and so precedes attempt i + 1 or the final raise, is baseDelay x 2^i plus a
\* jitter in 0..99 ms; ignoring jitter, delay(i+1) >= 2 x delay(i) for every
\* pair of consecutive attempts.
C11_BackoffDoubles ==
    /\ chat.phase = "backoff" =>
          LET i == chat.requests - 1    \* the attempt that has just failed
          IN  chat.wait - Base * 2^i \in 0..(JitterSpan - 1)
    /\ \A i \in 0..Retries :
          backoffWait(Base, i + 1, 0) >= 2 * backoffWait(Base, i, 0)

\* the third attempt of a call with base 500 has failed and the call waits
C11_Witness ==
    /\ pc = "call"
    /\ chat.phase = "backoff"
    /\ chat.attempt = 2
    /\ Base = DefaultBaseDelayMs
    /\ chat.wait = 4 * DefaultBaseDelayMs + JitterSpan - 1

\* C12: a call whose attempts all failed raises the error captured on the last
\* failed attempt; the generic 'API call failed' error is raised only when no
\* error was captured at all (no attempt was made).
C12_RaisesLastError ==
    (pc = "done" /\ out.status = "raised") =>
        IF chat.requests = 0
        THEN out.error = Thrown("API call failed")
        ELSE /\ chat.requests = Retries + 1
             /\ out.error = ChatError(chat.resp)
             /\ out.error # Thrown("API call failed")

\* three attempts failed, the last on a network error, and the call has raised it
C12_Witness ==
    /\ pc = "done"
    /\ out.status = "raised"
    /\ Retries = 2
    /\ chat.requests = 3
    /\ chat.resp.status = 0
    /\ out.error = Thrown("fetch failed")

HasOpenBrace(t) == \E i \in 1..Len(t) : t[i] = "{"

\* C13: extractJSON never throws; it returns null only when the text is empty
\* or has no '{' character, and a record whenever a '{' is present.
C13_ExtractNullOnlyWithoutBrace ==
    (req.entry = "extract" /\ pc = "done") =>
        /\ out.status = "returned"
        /\ (parsed = Null) <=> ~HasOpenBrace(args.text)
        /\ parsed # Null => parsed.kind = "object"

\* a text with a '{' that neither parses nor can be closed gave the fallback record
C13_Witness ==
    /\ req.entry = "extract"
    /\ pc = "done"
    /\ args.text = <<"{", "n", "}">>
    /\ parsed # Null
    /\ parsed.goal = Literal(FallbackGoal)

\* C14: for a valid JSON object embedded in prose, extractJSON returns an
\* object deep-equal to the embedded one, also when the prose has brace
\* characters and the object's string values contain braces.
C14_ExtractRoundTrip ==
    (req.entry = "extract" /\ pc = "done" /\ args.embedded # <<>>) =>
        parsed = Parsed(args.embedded)

\* C15: for the object text truncated inside an open string value in an object
\* nested in an array, extractJSON returns an object with the original k (1)
\* and goal ("g").
C15_TruncationRecoversFields ==
    (req.entry = "extract" /\ pc = "done" /\ args.text = TruncatedExample) =>
        /\ parsed # Null
        /\ parsed.k = NumberValue(1)
        /\ parsed.goal = [Missing EXCEPT !.type = "string", !.chars = <<"g">>]

\* the state after one call of validateIteration on its own
Validating == req.entry = "validate" /\ pc = "done"

\* every criterion of validateIteration other than the equation count
OtherCriteriaOk(it, last) ==
    /\ NoEmptyEquation(it.equations) /\ JustifiedOk(it.equations)
    /\ SummaryLenOk(it) /\ AnalysisLenOk(it)
    /\ NotRedundant(it.equations, last)
    /\ RigorOk(it, it.equations) /\ MathOk(it.equations) /\ GoalLenOk(it)

\* C16: validateIteration returns false for every candidate with fewer than
\* MinEquations equations, whatever its other fields, the previous iteration
\* and the detail level are, and returns true for every candidate with at
\* least MinEquations equations that meets every other criterion.
C16_EquationCountGate ==
    Validating /\ args.it # Null =>
        /\ Len(args.it.equations) < MinEquations => ~hist.lastVal.ok
        /\ Len(args.it.equations) >= MinEquations /\ OtherCriteriaOk(args.it, args.last)
              => hist.lastVal.ok

\* a candidate one equation short and otherwise flawless has been rejected
C16_Witness ==
    /\ Validating /\ args.it # Null
    /\ Len(args.it.equations) = MinEquations - 1
    /\ OtherCriteriaOk(args.it, args.last)
    /\ ~hist.lastVal.ok

\* two equations compared as the claim compares them: latex, or text when
\* latex is empty, trimmed and lower-cased
SameEquation(e, f) ==
    TrimLower(OrElse(e.latex, e.text)) = TrimLower(OrElse(f.latex, f.text))

\* every criterion of validateIteration other than the redundancy check
NonRedundancyCriteriaOk(it) ==
    /\ CountOk(it.equations) /\ NoEmptyEquation(it.equations) /\ JustifiedOk(it.equations)
    /\ SummaryLenOk(it) /\ AnalysisLenOk(it)
    /\ RigorOk(it, it.equations) /\ MathOk(it.equations) /\ GoalLenOk(it)

Flawless(n) == Iteration(9, GoalOk, AnalysisOk, Eqs(n, EqA, EqA), SummaryOk, FALSE)

\* the equation-count threshold validateIteration applies at a detail level:
\* the least count at which a flawless candidate is accepted
AppliedMinimum(detailLevel) ==
    CHOOSE n \in 0..MaxEquations :
        /\ validateIteration(Flawless(n), Null, detailLevel)
        /\ \A j \in 0..(n - 1) : ~validateIteration(Flawless(j), Null, detailLevel)

\* C18: the threshold applied for "exhaustive" is higher than the one applied
\* for "standard" and "basic", so a call at "exhaustive" on a candidate that
\* has exactly the equation count a lower level requires, and is flawless
\* otherwise, returns false.
C18_ExhaustiveStricter ==
    /\ Validating /\ args.it # Null /\ args.detailLevel = "exhaustive"
    /\ OtherCriteriaOk(args.it, args.last)
    /\ \E lower \in {"standard", "basic"} :
          Len(args.it.equations) = AppliedMinimum(lower)
    => ~hist.lastVal.ok

\* the warnings of all the criteria a candidate fails
FailedChecks(it, last) ==
    LET eqs == it.equations
    IN  UNION { IF ~CountOk(eqs) THEN {"Insufficient equations"} ELSE {},
                IF ~NoEmptyEquation(eqs) THEN {"Found empty equations"} ELSE {},
                IF ~JustifiedOk(eqs) THEN {"Insufficient justifications"} ELSE {},
                IF ~SummaryLenOk(it) THEN {"Insufficient result summary"} ELSE {},
                IF ~AnalysisLenOk(it) THEN {"Insufficient analysis"} ELSE {},
                IF ~NotRedundant(eqs, last) THEN {"Redundant with previous iteration"} ELSE {},
                IF ~RigorOk(it, eqs) THEN {"Insufficient physics rigor checks"} ELSE {},
                IF ~MathOk(eqs) THEN {"Insufficient mathematical content"} ELSE {},
                IF ~GoalLenOk(it) THEN {"Insufficient goal statement"} ELSE {} }

\* C19: every call of validateIteration that returned false wrote a failure
\* reason, a call on a missing candidate included, and the reasons written
\* name every criterion the candidate fails, not only the first.
C19_EveryFailureReported ==
    Validating /\ ~hist.lastVal.ok =>
        /\ hist.lastVal.warned # <<>>
        /\ args.it # Null =>
              FailedChecks(args.it, args.last) \subseteq
                  { hist.lastVal.warned[i] : i \in 1..Len(hist.lastVal.warned) }

\* C20: a revision is requested only in a round whose first candidate has
\* just failed validateIteration; the request ends either with the revised
\* iteration appended and the round over, or, when the revision is null,
\* fails validateIteration or the call raises, with nothing appended and the
\* loop left for good: there is no second revision in the round and no
\* further round.
C20_OneRevisionPerRound ==
    /\ [][pc' = "revise" /\ pc # "revise" =>
            /\ pc \in {"iter", "repair"}
            /\ k' = k /\ iterations' = iterations
            /\ hist'.lastVal # Null
            /\ hist'.lastVal.it = parsed'
            /\ ~hist'.lastVal.revision
            /\ ~hist'.lastVal.ok]_vars
    /\ [][pc = "revise" /\ pc' # "revise" =>
            \/ /\ Len(iterations') = Len(iterations) + 1
               /\ k' = k + 1
               /\ hist'.lastVal.revision /\ hist'.lastVal.ok
            \/ /\ iterations' = iterations
               /\ pc' \in {"synth", "done"}]_vars
    /\ [](hist.failed = "validate" => pc \notin RunPcs)

\* a revision that failed validateIteration has ended the rounds
C20_Witness ==
    /\ hist.failed = "validate"
    /\ hist.lastVal # Null /\ hist.lastVal.revision /\ ~hist.lastVal.ok
    /\ pc \in {"synth", "done"}

\* the condition of solver.js:693 written on the run's own state
AppendixDue ==
    /\ args # Null
    /\ ~env.smallModel
    /\ Len(iterations) > 0
    /\ args.detailLevel \in {"exhaustive", "standard"}

\* C21: synthesizeAppendix is called at most once in a run; the call is made
\* on leaving the iteration loop, with the iteration list final, at least one
\* iteration accepted, a detail level of "exhaustive" or "standard" and a
\* model that is not small; a run that ends without these conditions has
\* made no synthesis call.
C21_SynthesisOnceAfterLoop ==
    /\ [](hist.synthCalls <= 1)
    /\ [](pc = "synth" => hist.synthCalls = 1)
    /\ [](hist.synthCalls = 1 => pc \in {"synth", "done"} /\ AppendixDue)
    /\ [][hist'.synthCalls # hist.synthCalls =>
            pc \in {"iter", "repair", "revise"} /\ pc' = "synth"]_vars
    /\ [][pc = "synth" => iterations' = iterations /\ pc' \in {"synth", "done"}]_vars
    /\ [](pc = "done" /\ ~AppendixDue => hist.synthCalls = 0)

\* a run has returned after its one synthesis call
C21_Witness ==
    /\ pc = "done" /\ out.status = "returned"
    /\ hist.synthCalls = 1 /\ AppendixDue

PlannerFailures == {"not_ok", "throws", "unparseable", "not_array"}

\* the run has just come out of a planner call that failed
PlannerJustFailed == hist.planner \in PlannerFailures

\* the run has returned after a plan-less loop that neither the model's stop
\* flag nor a failed round cut short
PlanlessLoopRanOut ==
    /\ pc = "done" /\ out.status = "returned"
    /\ args # Null /\ plan = 0
    /\ ~stop /\ hist.failed = "none"

LatexSpecials == {BS, "#", "%", "&", "_", "$", "~", "^", "{", "}"}

\* a text with one backslash put in front of each special character
RECURSIVE EscapedOnce(_)
EscapedOnce(cs) ==
    IF cs = <<>> THEN <<>>
    ELSE (IF Head(cs) \in LatexSpecials THEN <<BS, Head(cs)>> ELSE <<Head(cs)>>)
            \o EscapedOnce(Tail(cs))

\* C23: the text esc returns is the input with exactly one backslash put in
\* front of every backslash, #, %, &, _, $, ~, ^, { and }, all other
\* characters kept: no backslash the escaping wrote is escaped again;
\* '100% A&B_C' gives '100\% A\&B\_C'.
C23_EscapesEachSpecialOnce ==
    req.entry = "esc" /\ pc = "done" /\ args.s.type = "string" =>
        /\ parsed.chars = EscapedOnce(args.s.chars)
        /\ args.s.chars = <<"1", "0", "0", "%", " ", "A", "&", "B", "_", "C">> =>
              parsed.chars = <<"1", "0", "0", BS, "%", " ", "A", BS, "&", "B", BS, "_", "C">>

\* esc has returned '\\\%\{' for the text '\%{'
C23_Witness ==
    /\ req.entry = "esc" /\ pc = "done"
    /\ args.s = StringValue(<<BS, "%", "{">>)
    /\ parsed.chars = <<BS, BS, BS, "%", BS, "{">>

\* C24: the document of a returned run has Problem Statement first, then
\* (after the Assumptions and Notation sections, when there are any) one
\* subsection per iteration in list order, then Conclusion, and, when the
\* synthesis gave a non-empty appendixLatex, the appendix content after the
\* Conclusion.
C24_DocumentOrderWithAppendix ==
    pc = "done" /\ out.status = "returned" =>
        LET doc == out.result.latex
            n == Len(iterations)
            Pos(name) == { i \in 1..Len(doc) : doc[i].part = name }
        IN  /\ doc[1].part = "Problem Statement"
            /\ Len(IterationParts(doc)) = n
            /\ \A i \in Pos("Iteration"), j \in Pos("Conclusion") : i < j
            /\ \A i \in Pos("Iteration") : 1 < i
            /\ Pos("Conclusion") # {}
            /\ out.result.final.appendix =>
                  /\ Pos("Appendix") # {}
                  /\ \A i \in Pos("Conclusion"), j \in Pos("Appendix") : i < j

\* C25: a POST without an equation whose intent parsing gave no equation,
\* for whatever reason, is answered 400 and the solver is not started: no
\* such request is answered with a server error.
C25_IntentFailureAbsorbed ==
    /\ req.entry = "endpoint" /\ req.method = "POST" /\ ~req.equation
    /\ pc = "done" /\ args = Null
    => /\ out.http = 400
       /\ out.status = "none"
       /\ hist.rounds = 0 /\ iterations = <<>>

\* C26: without the provider's credential no network call is ever issued:
\* the run is never at the planner, a round, a repair, a revision or the
\* synthesis; a call of solveSchrodingerIterative ends raising the
\* configuration error, and the endpoint answers it with a non-2xx status
\* and that error.
C26_ConfigErrorBeforeAnyCall ==
    ~env.hasKey =>
        /\ pc \in {"idle", "done"}
        /\ chat = IdleChat
        /\ hist.rounds = 0 /\ hist.synthCalls = 0 /\ hist.planner = "none"
        /\ pc = "done" /\ args # Null =>
              /\ out.status = "raised"
              /\ out.error = Thrown("GROQ_API_KEY not set")
              /\ req.entry = "endpoint" => out.http >= 400

\* the endpoint has answered a request with an equation 500, the credential
\* being absent
C26_Witness ==
    /\ ~env.hasKey /\ req.entry = "endpoint" /\ req.equation
    /\ pc = "done" /\ args # Null
    /\ out.status = "raised" /\ out.http = 500

\* C27: whatever the provider, Gemini included, what a stage has in hand
\* after a chat call returned on a 2xx response is one choice whose content
\* is the text the provider produced, and on every path the attempts stay
\* within maxRetries + 1.
C27_NormalizedWhateverProvider ==
    /\ req.entry = "llm" => chat.requests <= Retries + 1
    /\ req.entry = "llm" /\ pc = "done" /\ out.status = "returned" =>
          LET w == out.result.wire
              sent == IF Len(w.candidates) > 0 THEN w.candidates[1]
                      ELSE IF Len(w.choices) > 0 THEN w.choices[1] ELSE ""
          IN  /\ Len(out.result.data.choices) = 1
              /\ out.result.data.candidates = <<>>
              /\ out.result.content = sent

\* what every run keeps true of its own state, alone or not
RunOwnState ==
    /\ Len(iterations) <= hist.rounds
    /\ hist.rounds <= totalLoops(args, plan)
    /\ \A i \in 1..Len(iterations) : iterations[i].k = i
    /\ out.status = "returned" => out.result.iterations = iterations

\* C28: of two runs interleaved at their awaits, a step of the executing run
\* leaves the suspended run's state as it is, a run that is resumed finds
\* its iteration list, stop flag and every other local exactly as it left
\* them, and each run's list and result obey the run's own arguments and
\* rounds.
C28_RunsIndependent ==
    /\ [][req'.focus = req.focus => req'.peer = req.peer]_vars
    /\ [][req'.focus # req.focus =>
            /\ Cur' = req.peer.run
            /\ args' = req.peer.args
            /\ req'.peer = Suspended(Cur, args)]_vars
    /\ [](RunOwnState)

\* the first run, suspended after its first round while the second run ran
\* to its end with one iteration, has ended with two iterations of its own
C28_Witness ==
    /\ req.focus = 1 /\ req.switches >= 2
    /\ pc = "done" /\ out.status = "returned" /\ Len(iterations) = 2
    /\ req.peer.run.pc = "done" /\ Len(req.peer.run.iterations) = 1

\* C29: the stages of a run come in the order planner, rounds, synthesis,
\* document.  While the planner call is out no round has started, and with
\* the planner strategy round 1 starts on the planner's answer; round k+1
\* is under way only with k iterations appended; after the synthesis call
\* was issued no round, repair or revision follows; the document exists
\* only in the run's last state, built by the step that ends the run, and
\* nothing happens after it.
C29_StageOrder ==
    /\ [](pc = "plan" => hist.rounds = 0 /\ iterations = <<>> /\ hist.synthCalls = 0)
    /\ [][hist.rounds = 0 /\ hist'.rounds = 1 =>
            IF args'.strategy = "planner" THEN pc = "plan" ELSE pc = "idle"]_vars
    /\ [][hist'.rounds # hist.rounds =>
            /\ hist'.rounds = hist.rounds + 1
            /\ Len(iterations') = hist.rounds
            /\ pc' = "iter"]_vars
    /\ [](pc \in {"iter", "repair", "revise"} =>
            Len(iterations) = hist.rounds - 1 /\ k = hist.rounds /\ hist.synthCalls = 0)
    /\ [](pc = "delay" => Len(iterations) = hist.rounds /\ hist.synthCalls = 0)
    /\ [](hist.synthCalls > 0 => pc \in {"synth", "done"})
    /\ [](out.result # Null => pc = "done")
    /\ [][out'.result # Null =>
            /\ out.result = Null
            /\ out'.status = "returned"
            /\ out'.result.latex = buildLatexDocument(iterations', out'.result.final)
            /\ out'.result.iterations = iterations'
            /\ pc \in {"iter", "repair", "revise", "synth"}]_vars
    /\ [][pc # "done"]_vars

\* a run with the planner strategy has returned after two rounds and a
\* synthesis call
C29_Witness ==
    /\ pc = "done" /\ out.status = "returned"
    /\ args # Null /\ args.strategy = "planner"
    /\ hist.rounds = 2 /\ Len(iterations) = 2 /\ hist.synthCalls = 1

MeetsAllCriteria(it, last) ==
    LET eqs == it.equations
        n == Len(eqs)
        justified == {i \in 1..n : StrLen(eqs[i].text) > 10}
        withToken == {i \in 1..n : HasMathSymbol(OrElse(eqs[i].latex, eqs[i].text))}
        prev == IF last = Null THEN <<>> ELSE last.equations
        redundant ==
            /\ n > 0 /\ Len(prev) > 0
            /\ \/ SameEquation(eqs[1], prev[1])
               \/ \E i \in 1..n : SameEquation(eqs[i], prev[Len(prev)])
    IN  /\ n >= MinEquations
        /\ \A i \in 1..n : ~(eqs[i].latex = "" /\ eqs[i].text = "")
        /\ 100 * Cardinality(justified) >= 60 * n
        /\ StrLen(it.result_summary) >= 60
        /\ StrLen(it.analysis) >= 50
        /\ StrLen(it.goal) >= 20
        /\ ~redundant
        /\ \/ HasPhysicsKeyword(it.analysis) \/ HasPhysicsKeyword(it.result_summary)
           \/ \E i \in 1..n : HasPhysicsKeyword(eqs[i].text)
        /\ 100 * Cardinality(withToken) >= 70 * n

\* C31: validateIteration returns true exactly when the candidate has at
\* least the minimum number of equations, none of them empty, at least 60% of
\* them with a text longer than 10 characters, a result_summary of at least
\* 60, an analysis of at least 50 and a goal of at least 20 characters, no
\* redundancy with the previous iteration, a rigor keyword, and a math token
\* in at least 70% of the equations; it returns false when any one fails.
C31_ValidConjunction ==
    Validating =>
        (hist.lastVal.ok <=> (args.it # Null /\ MeetsAllCriteria(args.it, args.last)))

\* a candidate with exactly 60% of its equations justified, and meeting every
\* other criterion, has been accepted
C31_Witness ==
    /\ Validating /\ args.it # Null /\ hist.lastVal.ok
    /\ LET eqs == args.it.equations
       IN  10 * Cardinality({i \in 1..Len(eqs) : StrLen(eqs[i].text) > 10}) = 6 * Len(eqs)

\* the state after one call of repairIncompleteJSON on its own
Repairing == req.entry = "repairJSON" /\ pc = "done"

\* a value is there: the field was set, whatever it holds
Present(v) == v.type # "undefined"

\* the text has a "k" member followed by digits
HasKDigits(t) ==
    \E p \in 1..(Len(t) - 2) :
        /\ t[p] = Q /\ t[p + 1] = "k" /\ t[p + 2] = Q
        /\ LET c == SkipWs(t, p + 3)
               d == SkipWs(t, c + 1)
           IN  c <= Len(t) /\ t[c] = ":" /\ d <= Len(t) /\ IsDigit(t[d])

\* C32: repairIncompleteJSON returns a record exactly for the texts that
\* contain '{', and every record it returns has k, goal, analysis and
\* result_summary present and an array for equations; when the closed-up text
\* does not parse the record carries the k read from the text (1 without
\* one), the three placeholder texts and an empty equations list.
C32_RepairedShape ==
    Repairing =>
        /\ parsed # Null <=> HasOpenBrace(args.text)
        /\ parsed # Null =>
              /\ Present(parsed.k) /\ Present(parsed.goal) /\ Present(parsed.analysis)
              /\ Present(parsed.result_summary)
              /\ parsed.equations.type = "array"
        /\ parsed # Null /\ parsed.text = <<>> =>
              /\ parsed.k.type = "number"
              /\ ~HasKDigits(args.text) => parsed.k.num = 1
              /\ parsed.goal = Literal(FallbackGoal)
              /\ parsed.analysis = Literal(FallbackAnalysis)
              /\ parsed.result_summary = Literal(FallbackSummary)
              /\ parsed.equations = EmptyArray

\* a text cut inside its first string value has been closed up and parsed,
\* and the fields it lacks have been defaulted
C32_Witness ==
    /\ Repairing /\ parsed # Null /\ parsed.text # <<>>
    /\ parsed.text # args.text
    /\ parsed.analysis = Literal("Continuing the solution")
    /\ parsed.equations = EmptyArray

\* a text no closing repairs has given the placeholder record with the k
\* read from the text
C32_WitnessFallback ==
    /\ Repairing /\ parsed # Null /\ parsed.text = <<>>
    /\ parsed.k = NumberValue(42)

\* the state after one call of normalizeLatexTokens on its own
Normalizing == req.entry = "normalize" /\ pc = "done"

\* a pass that leaves a name alone when a backslash is in front of it
RECURSIVE replaceBareToken(_, _, _)
replaceBareToken(s, i, w) ==
    IF i > Len(s) THEN <<>>
    ELSE IF MatchesAt(s, i, w)
         THEN (IF i > 1 /\ s[i - 1] = BS THEN w ELSE <<BS>> \o w)
                 \o replaceBareToken(s, i + Len(w), w)
    ELSE <<s[i]>> \o replaceBareToken(s, i + 1, w)

\* the text with a backslash put in front of the bare standalone command
\* names only
BareNamesPrefixed(v) ==
    LET Pass(s, n) == replaceBareToken(s, 1, TokenNames[n])
    IN  IF v.type # "string" THEN v
        ELSE StringValue(Pass(Pass(Pass(Pass(Pass(v.chars, 1), 2), 3), 4), 5))

\* C33: normalizeLatexTokens puts a backslash in front of the bare
\* standalone occurrences of lambda, hbar, xi, infty and varepsilon and of
\* nothing else, a name that already has its backslash being left as it is,
\* and applying it to its own result changes nothing.
C33_NormalizesBareNamesOnly ==
    Normalizing =>
        /\ parsed = BareNamesPrefixed(args.s)
        /\ normalizeLatexTokensText(parsed) = parsed

\* the same for the texts without a backslash
C33_HoldsWithoutBackslash ==
    Normalizing /\ (\A i \in 1..Len(args.s.chars) : args.s.chars[i] # BS) =>
        parsed = BareNamesPrefixed(args.s)

\* C34: no step of a run changes or moves an iteration that is already in
\* the list: the list after any step, a later round, a revision, the
\* synthesis call and the building of the document included, starts with the
\* list before it, and what is returned is that list, with one subsection of
\* the document for each entry in the same order.
C34_AppendedIterationsFrozen ==
    [][/\ Len(iterations') >= Len(iterations)
       /\ SubSeq(iterations', 1, Len(iterations)) = iterations
       /\ out'.status = "returned" =>
             /\ out'.result.iterations = iterations'
             /\ Len(IterationParts(out'.result.latex)) = Len(iterations')
             /\ \A i \in 1..Len(iterations') :
                   IterationParts(out'.result.latex)[i].k = iterations'[i].k]_vars

\* a run has returned two iterations after a second round that went through
\* a revision and after a synthesis call
C34_Witness ==
    /\ out.status = "returned" /\ Len(iterations) = 2
    /\ out.result.iterations = iterations
    /\ hist.lastVal # Null /\ hist.lastVal.revision /\ hist.lastVal.ok
    /\ hist.lastVal.last = iterations[1]
    /\ hist.synthCalls = 1

\* C35: the solver run started for a /api/schrodinger request has the
\* strategy and the provider of the request body: a body with provider
\* 'openrouter' is served with the OpenRouter configuration, and for a body
\* with strategy 'baseline' no planner call is made.
C35_BodySelectsStrategyAndProvider ==
    req.entry = "endpoint" /\ args # Null =>
        /\ args.strategy = req.strategy
        /\ args.provider = req.provider
        /\ req.strategy = "baseline" => pc # "plan"

\* the same for a caller that passes the two arguments to the solver itself
C35_HoldsForDirectCalls ==
    req.entry = "direct" /\ args # Null =>
        /\ args.strategy = req.strategy
        /\ args.provider = req.provider
        /\ req.strategy = "baseline" => pc # "plan"

\* a step in which a chat call is issued
CallIssued == chat' = NewChat /\ (pc' # pc \/ hist'.rounds # hist.rounds)

\* the order of the three calls of a round
CallRank(p) == CASE p = "iter" -> 1 [] p = "repair" -> 2 [] p = "revise" -> 3 [] OTHER -> 0

\* C36: the planner is called at most once, at the start of the run; an
\* iteration call opens a new round and there are never more rounds than
\* totalLoops; within a round the repair call follows only the iteration
\* call and the revise call only one of those two, so each is issued at most
\* once; the synthesis call is issued at most once and only the return
\* follows it; and, every chat call ending, every run ends.
C36_BoundedCallsAndTermination ==
    /\ [][/\ pc # "idle" => pc' \notin {"idle", "plan"} \/ pc' = pc
          /\ CallIssued /\ pc' = "iter" =>
                /\ hist'.rounds = hist.rounds + 1
                /\ hist'.rounds <= totalLoops(args', plan')
          /\ CallIssued /\ pc' \in {"repair", "revise"} =>
                /\ hist'.rounds = hist.rounds
                /\ CallRank(pc) > 0 /\ CallRank(pc') > CallRank(pc)
          /\ CallIssued /\ pc' = "synth" =>
                /\ pc # "synth" /\ hist.synthCalls = 0 /\ hist'.synthCalls = 1
          /\ pc = "synth" => pc' \in {"synth", "done"}
          /\ pc' \in ChatPcs /\ chat'.phase = "fetch" /\ ~CallIssued =>
                pc' = pc /\ chat'.requests = chat.requests + 1]_vars
    /\ [](hist.synthCalls <= 1)
    /\ [](args # Null => hist.rounds <= totalLoops(args, plan))
    /\ (pc # "idle") ~> (pc = "done")

\* a run with a plan has used all its rounds, the last one with a revise
\* call, made its synthesis call and returned
C36_Witness ==
    /\ pc = "done" /\ out.status = "returned"
    /\ plan > 0 /\ hist.rounds = totalLoops(args, plan) /\ hist.rounds >= 2
    /\ hist.lastVal # Null /\ hist.lastVal.revision
    /\ hist.synthCalls = 1

\* a response that is neither 2xx nor retryable and whose body is JSON with
\* a textual error_model_output containing '{'
RecoverableErrorBody(r) ==
    /\ r # Null /\ r.status # 0 /\ ~RespOk(r) /\ r.status # 429 /\ r.status < 500
    /\ r.emo # Null /\ r.emo.kind \in {"json", "truncated"}

\* the content is the record recovered from the error_model_output e: the
\* object itself with its missing k defaulted, or the placeholder record
RecoveredFrom(content, e) ==
    /\ content.kind = "json"
    /\ e.kind = "json" =>
          /\ content.rec.k = (IF e.rec.k = 0 THEN 1 ELSE e.rec.k)
          /\ content.rec.equations = e.rec.equations
          /\ content.rec.goal = e.rec.goal
    /\ e.kind = "truncated" =>
          /\ content.rec.k = (IF e.k = -1 THEN 1 ELSE e.k)
          /\ content.rec.equations = <<>>
          /\ content.rec.goal = FallbackGoal
          /\ content.rec.result_summary = FallbackSummary

\* a call that returned on a response that is not 2xx returned on a
\* recoverable error body, with the recovered record as its content
ErrorBodyReturnIsRecovery ==
    pc = "done" /\ out.status = "returned" /\ ~RespOk(hist.lastReturn) =>
        /\ RecoverableErrorBody(hist.lastReturn)
        /\ RecoveredFrom(out.result.content, hist.lastReturn.emo)

\* the response an attempt of the call has just failed on
FailedOn(r) == chat.phase = "backoff" /\ chat.resp = r

\* C37 as stated: no attempt fails on a recoverable error body - the call
\* returns the recovered record as a successful response - and the HTTP
\* error is raised only for the other responses.
C37_AsStated ==
    /\ ErrorBodyReturnIsRecovery
    /\ ~(\E r \in ErrorResponsesAt("call") : FailedOn(r) /\ RecoverableErrorBody(r))

\* C37 amended: the call returns the recovered record for a recoverable
\* error body unless the record's k is 0, which is the placeholder record of
\* a text that carries "k": 0; for that body, as for the other responses
\* that are not 2xx, the attempt fails with the HTTP error.
C37_ErrorBodyRecovered ==
    /\ ErrorBodyReturnIsRecovery
    /\ pc = "done" /\ out.status = "returned" /\ ~RespOk(hist.lastReturn) =>
          out.result.content.rec.k # 0
    /\ \A r \in ErrorResponsesAt("call") :
          FailedOn(r) /\ RecoverableErrorBody(r) => r.emo.kind = "truncated" /\ r.emo.k = 0
    /\ \A r \in ErrorResponsesAt("call") :
          FailedOn(r) /\ r.status # 0 /\ ~RespOk(r) => chat.lastErr = HttpErr(r.status)

\* the first attempt was answered 404 with a model output no closing
\* repairs and with "k": 9, and the call returned the placeholder record
C37_Witness ==
    /\ pc = "done" /\ out.status = "returned" /\ chat.requests = 1
    /\ hist.lastReturn.status = 404
    /\ hist.lastReturn.emo = Truncated(9)
    /\ out.result.content = Json(FallbackRecord(9))

\* the step in which the chat call of a round returns
RoundCallReturns == pc = "iter" /\ chat.phase = "fetch" /\ hist'.lastReturn # Null

\* C38: the network repair call is issued only by the step in which the
\* round's chat call returns, and exactly when the returned content is empty
\* or has no '{'; a content with '{' gives a record at once, the placeholder
\* record with no equations when it cannot be repaired, which is validated
\* in the same step and, failing, sent to the revise call.
C38_NetworkRepairOnlyWithoutBrace ==
    [][/\ pc' = "repair" /\ pc # "repair" => RoundCallReturns
       /\ RoundCallReturns =>
             LET content == ChatContent(hist'.lastReturn)
                 v == hist'.lastVal
             IN  /\ pc' = "repair" <=> content.kind \in {"empty", "prose"}
                 /\ pc' = "repair" => chat' = NewChat /\ v = Null
                 /\ content.kind \in {"json", "truncated"} =>
                       /\ v # Null /\ ~v.revision
                       /\ content.kind = "json" => v.it = content.rec
                       /\ content.kind = "truncated" =>
                             v.it.equations = <<>> /\ v.it.goal = FallbackGoal
                       /\ ~v.ok => pc' = "revise" /\ chat' = NewChat
                       /\ v.ok => Len(iterations') = Len(iterations) + 1]_vars

\* a content cut off beyond repair gave the placeholder record, which failed
\* validateIteration and is with the revise call
C38_Witness ==
    /\ pc = "revise" /\ chat = NewChat
    /\ hist.lastReturn # Null /\ RespOk(hist.lastReturn)
    /\ hist.lastReturn.content.kind = "truncated"
    /\ hist.lastVal # Null /\ ~hist.lastVal.ok
    /\ hist.lastVal.it.equations = <<>>

\* the pending chat call of a run has used its last attempt and failed
CallFailedForGood ==
    /\ pc \in {"iter", "repair", "revise", "synth"}
    /\ chat.phase = "backoff" /\ chat.requests = Retries + 1

\* C39: when a chat call of a run that holds accepted iterations fails for
\* good, in a later round, in the network repair, in the revision or in the
\* synthesis, the run raises the call's error: nothing is returned, the
\* accepted iterations included, and the endpoint answers 500 with the
\* error.
C39_LateFailureLosesIterations ==
    /\ [][CallFailedForGood /\ Len(iterations) > 0 =>
             /\ pc' = "done" /\ out'.status = "raised"
             /\ out'.result = Null
             /\ out'.error = chat.lastErr /\ out'.error.set
             /\ req.entry = "endpoint" => out'.http = 500]_vars
    /\ [](out.status = "raised" => out.result = Null /\ pc = "done")

\* the synthesis call of an endpoint run with two accepted iterations has
\* failed for good and the request has been answered 500
C39_Witness ==
    /\ pc = "done" /\ out.status = "raised" /\ out.http = 500
    /\ req.entry = "endpoint"
    /\ Len(iterations) = 2 /\ hist.synthCalls = 1
    /\ chat.requests = Retries + 1 /\ chat.requests > 1
    /\ out.result = Null

\* the main_result_latex of the synthesis a returned run made, '' when it
\* made no synthesis call or the synthesis stated none
SynthesisMain ==
    IF hist.synthCalls = 1 /\ hist.lastReturn # Null /\ RespOk(hist.lastReturn)
       /\ hist.lastReturn.content.kind = "json"
    THEN hist.lastReturn.content.rec.main_result_latex
    ELSE ""

\* C40: the final.main_result_latex a run returns is that of its last
\* accepted iteration when it is not empty; otherwise it is that of the
\* synthesis, which is '' when no synthesis call was made or it stated none;
\* and it is '' when no iteration was accepted.
C40_MainResultFromLastIteration ==
    pc = "done" /\ out.status = "returned" =>
        LET main == out.result.final.main_result_latex
            n == Len(out.result.iterations)
            lastMain == out.result.iterations[n].main_result_latex
        IN  /\ n = 0 => main = ""
            /\ n > 0 /\ lastMain # "" => main = lastMain
            /\ n > 0 /\ lastMain = "" => main = SynthesisMain

\* a run whose last iteration states a main result and whose synthesis
\* states another has returned the iteration's
C40_Witness ==
    /\ pc = "done" /\ out.status = "returned"
    /\ Len(iterations) > 0 /\ LastOf(iterations).main_result_latex = "E_n"
    /\ SynthesisMain = "E_s"
    /\ out.result.final.main_result_latex = "E_n"

\* a run whose last iteration states no main result has returned the one
\* its synthesis states
C40_WitnessSynthesis ==
    /\ pc = "done" /\ out.status = "returned"
    /\ Len(iterations) > 0 /\ LastOf(iterations).main_result_latex = ""
    /\ out.result.final.main_result_latex = "E_s"

====
